---- MODULE Spec2Model ----
(***************************************************************************)
(* Run lifecycle manager (services/gui_agent.py), the runner it launches   *)
(* on an executor thread (gui_agent/runner.py, gui_agent/run_loop.py) and  *)
(* the subscribers of a run's event stream.                                *)
(*                                                                         *)
(* The asyncio event loop is one thread: every coroutine segment between   *)
(* two awaits and every loop callback is one atomic action.  The worker    *)
(* thread of a run advances independently; what it hands to the loop with  *)
(* call_soon_threadsafe is appended to the FIFO `ready`.                    *)
(***************************************************************************)
EXTENDS Integers, Sequences, FiniteSets, TLC

\* ------------------------------------------------------------------ bounds
\* GuiAgentService(history_limit=...): size of the replay buffer
history_limit == 3
\* args.max_steps: turns of the episode loop
max_steps == 2
\* callbacks handed to the loop with call_soon_threadsafe and not yet run
MaxPending == 1
\* files in the skills directory
MaxSkills == 3
\* messages in the conversation when the last predict call begins
MaxHistory == 12

\* the run ids uuid4 hands out, in the order start_run draws them
RunIds == {1, 2}
\* ids a caller may pass to cancel_run / stream_events: one of them names no run
CallIds == RunIds \cup {3}
Subscribers == {"s1", "s2"}

VARIABLES
    runs,       \* self._runs: the ids in the registry
    run,        \* the GuiAgentRun objects, by id
    next_id,    \* the next fresh run id (uuid4)
    task,       \* position of each run's _execute_run coroutine
    wk,         \* each run's worker thread: run_prompt / run_single_example
    ready,      \* loop callbacks scheduled from worker threads, FIFO
    timers,     \* runs with a pending call_later(retention, _runs.pop)
    made,       \* per run: number of events created so far (stamps event ids)
    fatal,      \* per run: the run-fatal failure that occurred, or "none"
    ret,        \* what the most recent API call returned
    subs,       \* stream_events generators, one per subscriber
    agent,      \* each run's Qwen3VLAgent and the frame of its predict call
    parser,     \* one call of parse_response: its arguments and its result
    store,      \* the SkillRepository: its directory, its cache, its last call
    environ     \* os.environ: the variables _invoke_agent patches

vars == <<runs, run, next_id, task, wk, ready, timers, made, fatal, ret, subs,
          agent, parser, store, environ>>

\* ------------------------------------------------------------------ events
NoRet == [op |-> "none", id |-> 0, result |-> "none"]

Close == [type |-> "close", status |-> "none", id |-> 0, src |-> "manager",
          run_id |-> 0, task_id |-> FALSE, result_dir |-> FALSE]

\* an event as run_prompt._emit_event hands it to log_callback: task_id is
\* always attached, run_id never
RunnerEvent(type, status, id, dir) ==
    [type |-> type, status |-> status, id |-> id, src |-> "runner",
     run_id |-> 0, task_id |-> TRUE, result_dir |-> dir]

\* the status event cancel_run builds
CancelEvent(r, id) ==
    [type |-> "status", status |-> "cancelled", id |-> id, src |-> "manager",
     run_id |-> r, task_id |-> FALSE, result_dir |-> FALSE]

\* the error event _execute_run builds when no VLM profile is active
ProfileErrorEvent(r, id) ==
    [type |-> "error", status |-> "none", id |-> id, src |-> "manager",
     run_id |-> r, task_id |-> FALSE, result_dir |-> FALSE]

\* ------------------------------------------------------------------ objects
NewRun ==
    [status |-> "pending", history |-> <<>>, queue |-> <<>>,
     task_id |-> FALSE, result_dir |-> FALSE, completed_at |-> FALSE,
     cancel_event |-> FALSE]

\* evaluated: env.evaluate was called; scores: the list `scores` of the
\* caller; result_txt: the lines of result.txt, none when it was not written;
\* traj: the "action" of each record of traj.jsonl
\* os.environ.get(key) is None
Unset == "unset"

\* the keys of the patch that do not depend on the provider
EnvKeys == {"TIP_LLM_MODEL"}

\* none of the variables is set
NoEnviron == [key \in EnvKeys |-> Unset]

IdleWorker ==
    [pc |-> "idle", step_idx |-> 0, done |-> FALSE, html |-> FALSE,
     actions |-> <<>>, skills |-> 0, logged |-> 0,
     evaluated |-> FALSE, scores |-> <<>>, result_txt |-> <<>>, traj |-> <<>>,
     predicts |-> 0, profile |-> "none", previous |-> NoEnviron]

\* received, joined and late record what the generator yielded, how many
\* events of the run existed when it was created and whether the run was
\* finalized by then
IdleSub ==
    [pc |-> "idle", run |-> 0, idx |-> 1, received |-> <<>>, joined |-> 0,
     late |-> FALSE]

\* a reply of the model: what it says outside the markers, the skills it
\* asks for in <skill> markers, the code its tool calls compile to, and
\* whether it is the error page of a gateway
Text(say, skills, code, html) ==
    [say |-> say, skills |-> skills, code |-> code, html |-> html]

NoText == Text("", <<>>, <<>>, FALSE)
NoResult == [response |-> "", actions |-> <<>>]

\* Qwen3VLAgent.__init__ / reset: the conversation state, and the locals of
\* predict and _chat_with_skills while a call is under way
\* screen_width and screen_height of 0 stand for None, and so does the
\* catalog NoCatalog of the SkillManager; payload is the message list of the
\* latest provider request
NoCatalog == <<"None">>
NewAgent(repo, api_key) ==
    [repo |-> repo, api_key |-> api_key, pc |-> "idle",
     messages |-> <<>>, conversation_started |-> FALSE,
     executed_actions |-> 0, screen_width |-> 0, screen_height |-> 0,
     latest_skill_outputs |-> <<>>, catalog |-> NoCatalog,
     skill_turns |-> 0, calls |-> 0, tries |-> 0, failure |-> "none",
     payload |-> <<>>, response_raw |-> NoText, result |-> NoResult]

\* the arguments of parse_response that adjust_coordinates reads; a size
\* of 0 stands for None
Sizes(coordinate_type, ow, oh, pw, ph) ==
    [coordinate_type |-> coordinate_type, original_width |-> ow,
     original_height |-> oh, processed_width |-> pw, processed_height |-> ph]

\* JSON values whose type the parser looks at: a number, a string, a list
\* of values, null.  A JSON object is a record with its keys as fields.
Num(n) == [type |-> "number", value |-> n]
Str(s) == [type |-> "string", value |-> s]
List(items) == [type |-> "list", value |-> items]
Null == [type |-> "null", value |-> 0]

\* the text between <tool_call> and </tool_call>: a JSON object, followed
\* by `extra` duplicated closing braces, or text that is no JSON at all
Block(object, extra) == [broken |-> FALSE, object |-> object, extra |-> extra]
Broken == [broken |-> TRUE, object |-> Null, extra |-> 0]

\* a line that starts with "action:" in some spelling, and the text that
\* follows it on the line
ActionLine(prefix, remainder) == [prefix |-> prefix, remainder |-> remainder]
NoActionLine == ActionLine("", "")

\* a reply of the model as parse_response reads it: the action line and
\* the tool-call blocks after it
Response(head, blocks) == [head |-> head, blocks |-> blocks]

\* no call of parse_response
NoParse ==
    [pc |-> "idle", response |-> Response(NoActionLine, <<>>),
     sizes |-> Sizes("relative", 0, 0, 0, 0), raised |-> "none",
     low_level_instruction |-> "", pyautogui_code |-> <<>>]

\* a call on the repository with its arguments, "" for those it has not
Call(op, title, body, skill_id) ==
    [op |-> op, title |-> title, body |-> body, skill_id |-> skill_id]

\* what the most recent call on the repository returned or raised, and the
\* operation called before it
Outcome(call, after, result, id, title, body) ==
    [call |-> call, after |-> after, result |-> result, id |-> id,
     title |-> title, body |-> body]
NoOutcome == Outcome(Call("none", "", "", ""), "none", "none", "", "", "")

\* a skill of the cache (its path is its id with ".md")
Skill(title, body) == [title |-> title, body |-> body]

\* no file and no skill: functions with an empty domain
Nothing == [id \in {} |-> ""]

\* a repository: the *.md files of its directory by stem, and self._skills
Repository(files, skills) == [files |-> files, skills |-> skills, out |-> NoOutcome]
NoStore == Repository(Nothing, Nothing)

Terminal == {"completed", "error", "cancelled"}
Statuses == {"pending", "running", "cancelled", "error", "completed"}

\* the service after construction, before any agent exists
InitRuns ==
    /\ runs = {}
    /\ run = [r \in RunIds |-> NewRun]
    /\ next_id = 1
    /\ task = [r \in RunIds |-> "none"]
    /\ wk = [r \in RunIds |-> IdleWorker]
    /\ ready = <<>>
    /\ timers = {}
    /\ made = [r \in RunIds |-> 0]
    /\ fatal = [r \in RunIds |-> "none"]
    /\ ret = NoRet
    /\ subs = [s \in Subscribers |-> IdleSub]
    /\ parser = NoParse
    /\ environ = NoEnviron

Init ==
    /\ InitRuns
    /\ agent = [r \in RunIds |-> NewAgent("none", TRUE)]
    /\ store = NoStore

\* ------------------------------------------------------------ run manager
Active == {"pending", "running"}

\* _active_run: the runs of the registry that count as active (None = {})
active_run_pending_only == {r \in runs : run[r].status = "pending"}
active_run == {r \in runs : run[r].status \in Active}

\* start_run: ValueError on an empty instruction; under the lock (no await
\* inside it) the conflict check, the new GuiAgentRun, status running and
\* the creation of the _execute_run task
start_run(instruction, fresh) ==
    /\ IF instruction = ""
       THEN /\ ret' = [op |-> "start_run", id |-> 0, result |-> "ValueError"]
            /\ UNCHANGED <<runs, run, next_id, task, environ>>
       ELSE IF active_run # {}
       THEN /\ ret' = [op |-> "start_run", id |-> 0, result |-> "conflict"]
            /\ UNCHANGED <<runs, run, next_id, task, environ>>
       ELSE /\ next_id \in fresh
            /\ runs' = runs \cup {next_id}
            /\ run' = [run EXCEPT ![next_id] = [NewRun EXCEPT !.status = "running"]]
            /\ task' = [task EXCEPT ![next_id] = "scheduled"]
            /\ ret' = [op |-> "start_run", id |-> next_id, result |-> "ok"]
            /\ next_id' = next_id + 1
    /\ UNCHANGED <<wk, ready, timers, made, fatal, subs, agent, parser, store, environ>>

\* cancel_run on a run object that passed both guards
cancel_skip_flag(o, r, id) ==
    [o EXCEPT !.status = "cancelled",
              !.queue = Append(o.queue, CancelEvent(r, id))]
cancel_apply(o, r, id) ==
    [o EXCEPT !.status = "cancelled",
              !.cancel_event = TRUE,
              !.queue = Append(o.queue, CancelEvent(r, id))]

\* the statuses for which cancel_run returns False
cancel_refused_never == {}
cancel_refused == {"completed", "error", "cancelled"}

cancel_run(id) ==
    /\ IF id \notin runs \/ run[id].status \in cancel_refused
       THEN /\ ret' = [op |-> "cancel_run", id |-> id, result |-> "False"]
            /\ UNCHANGED <<run, made>>
       ELSE /\ run' = [run EXCEPT ![id] = cancel_apply(run[id], id, made[id] + 1)]
            /\ made' = [made EXCEPT ![id] = made[id] + 1]
            /\ ret' = [op |-> "cancel_run", id |-> id, result |-> "True"]
    /\ UNCHANGED <<runs, next_id, agent, parser, store, task, wk, ready, timers, fatal, subs, environ>>

\* _handle_event on the run object o of run r
handle_event_evict_newest(o, r, event) ==
    LET enriched == [event EXCEPT !.run_id = IF event.run_id = 0 THEN r ELSE event.run_id,
                                  !.task_id = event.task_id \/ o.task_id]
        appended == Append(o.history, enriched)
    IN  [o EXCEPT !.history = IF Len(appended) > history_limit
                              THEN SubSeq(appended, 1, history_limit) ELSE appended,
                  !.status = IF enriched.type = "error" THEN "error"
                             ELSE IF enriched.type = "complete" THEN enriched.status
                             ELSE o.status,
                  !.task_id = o.task_id \/ enriched.task_id,
                  !.result_dir = o.result_dir \/ enriched.result_dir,
                  !.queue = Append(o.queue, enriched)]
handle_event(o, r, event) ==
    LET enriched == [event EXCEPT !.run_id = IF event.run_id = 0 THEN r ELSE event.run_id,
                                  !.task_id = event.task_id \/ o.task_id]
        appended == Append(o.history, enriched)
    IN  [o EXCEPT !.history = IF Len(appended) > history_limit
                              THEN Tail(appended) ELSE appended,
                  !.status = IF enriched.type = "error" THEN "error"
                             ELSE IF enriched.type = "complete" THEN enriched.status
                             ELSE o.status,
                  !.task_id = o.task_id \/ enriched.task_id,
                  !.result_dir = o.result_dir \/ enriched.result_dir,
                  !.queue = Append(o.queue, enriched)]

\* _finalize_run on the run object o
finalize_run_keep_status(o) ==
    [o EXCEPT !.completed_at = TRUE, !.queue = Append(o.queue, Close)]
finalize_run(o) ==
    [o EXCEPT !.status = IF o.status \notin Terminal THEN "completed" ELSE o.status,
              !.completed_at = TRUE,
              !.queue = Append(o.queue, Close)]

\* _execute_run up to its await: the missing-profile exit, or the hand-over
\* of worker() to the executor
execute_run(r, env) ==
    /\ task[r] = "scheduled"
    /\ \E profile \in env.profiles :
         IF profile = "none"
         THEN /\ made' = [made EXCEPT ![r] = made[r] + 1]
              /\ fatal' = [fatal EXCEPT ![r] = "profile"]
              /\ LET o == [run[r] EXCEPT
                             !.queue = Append(run[r].queue, ProfileErrorEvent(r, made[r] + 1))]
                 IN  IF r \in runs
                     THEN /\ run' = [run EXCEPT ![r] = finalize_run(o)]
                          /\ timers' = timers \cup {r}
                     ELSE /\ run' = [run EXCEPT ![r] = o]
                          /\ UNCHANGED timers
              /\ task' = [task EXCEPT ![r] = "done"]
              /\ UNCHANGED wk
         ELSE /\ task' = [task EXCEPT ![r] = "awaiting"]
              /\ wk' = [wk EXCEPT ![r].pc = "prepare", ![r].profile = profile]
              /\ UNCHANGED <<run, timers, made, fatal>>
    /\ ret' = NoRet
    /\ UNCHANGED <<runs, next_id, agent, parser, store, ready, subs, environ>>

\* the loop runs the oldest scheduled callback: _handle_event for an event,
\* or the rest of _execute_run once the executor future is done
run_callback ==
    /\ ready # <<>>
    /\ LET cb == Head(ready)
           r == cb.run
       IN  IF cb.kind = "event"
           THEN /\ run' = IF r \in runs
                          THEN [run EXCEPT ![r] = handle_event(run[r], r, cb.event)]
                          ELSE run
                /\ UNCHANGED <<task, timers>>
           ELSE /\ LET o == IF cb.ok
                            THEN [run[r] EXCEPT !.task_id = TRUE, !.result_dir = TRUE]
                            ELSE run[r]
                   IN  IF r \in runs
                       THEN /\ run' = [run EXCEPT ![r] = finalize_run(o)]
                            /\ timers' = timers \cup {r}
                       ELSE /\ run' = [run EXCEPT ![r] = o]
                            /\ UNCHANGED timers
                /\ task' = [task EXCEPT ![r] = "done"]
    /\ ready' = Tail(ready)
    /\ ret' = NoRet
    /\ UNCHANGED <<runs, next_id, agent, parser, store, wk, made, fatal, subs, environ>>

\* the call_later(retention_seconds, self._runs.pop, run_id, None) timer fires
expire_early(r) ==
    /\ r \in runs
    /\ timers' = timers \ {r}
    /\ runs' = runs \ {r}
    /\ ret' = NoRet
    /\ UNCHANGED <<run, next_id, agent, parser, store, task, wk, ready, made, fatal, subs, environ>>
expire(r) ==
    /\ r \in timers
    /\ timers' = timers \ {r}
    /\ runs' = runs \ {r}
    /\ ret' = NoRet
    /\ UNCHANGED <<run, next_id, agent, parser, store, task, wk, ready, made, fatal, subs, environ>>

\* ---------------------------------------------------------- worker thread
\* what agent.predict may do: raise, or hand back a reply that looks like an
\* upstream error page or not, the compiled actions and the skill outputs
Reply(raises, html, actions, skills) ==
    [raises |-> raises, html |-> html, actions |-> actions, skills |-> skills]

Replies ==
    { Reply(TRUE,  FALSE, <<>>, 0),
      Reply(FALSE, TRUE,  <<>>, 0),
      Reply(FALSE, FALSE, <<>>, 0),
      Reply(FALSE, FALSE, <<>>, 1),
      Reply(FALSE, FALSE, <<"click">>, 0),
      Reply(FALSE, FALSE, <<"click", "DONE">>, 1),
      Reply(FALSE, FALSE, <<"FAIL">>, 0),
      Reply(FALSE, FALSE, <<"DONE", "click">>, 0) }

\* the behaviours of the collaborators (settings, environment, model) a
\* specification draws from
FullEnv ==
    [profiles |-> {"none", "vlm"}, prepare |-> {"ok", "raise"},
     reset |-> {"ok", "raise"}, replies |-> Replies, saved |-> {TRUE, FALSE}]

\* a model that answers DONE at once or fails, everything else in order
TerseEnv ==
    [profiles |-> {"vlm"}, prepare |-> {"ok"},
     reset |-> {"ok"},
     replies |-> {Reply(TRUE, FALSE, <<>>, 0), Reply(FALSE, FALSE, <<"DONE">>, 0)},
     saved |-> {TRUE}]

\* an environment whose reset fails (no screenshot can be taken)
FailingEnv ==
    [profiles |-> {"vlm"}, prepare |-> {"ok"}, reset |-> {"raise"},
     replies |-> {}, saved |-> {}]

\* log_callback: loop.call_soon_threadsafe(self._handle_event, run_id, event)
log_callback(r, type, status, dir) ==
    /\ Len(ready) < MaxPending
    /\ ready' = Append(ready, [kind |-> "event", run |-> r, ok |-> TRUE,
                               event |-> RunnerEvent(type, status, made[r] + 1, dir)])
    /\ made' = [made EXCEPT ![r] = made[r] + 1]

\* the executor future of worker() completes: _execute_run resumes after
\* every callback the thread scheduled before
worker_exit(r, ok) ==
    /\ Len(ready) < MaxPending
    /\ ready' = Append(ready, [kind |-> "result", run |-> r, ok |-> ok, event |-> Close])
    /\ UNCHANGED made

\* LocalMacOSEnv.evaluate
evaluate == 1

\* the status of the complete event after a local evaluation
complete_status(result) == IF result >= 1 THEN "success" ELSE "partial"

\* 'enhanced_task_id' in example: the task config run_prompt builds has none
enhanced_task == FALSE

Goto(r, pc) == wk' = [wk EXCEPT ![r].pc = pc]

\* a step of the worker thread touches nothing the loop owns
InvokeFrame ==
    /\ ret' = NoRet
    /\ UNCHANGED <<runs, run, next_id, agent, parser, store, task, timers, subs>>

\* ... and between the two ends of _invoke_agent it leaves os.environ alone
WorkerFrame == InvokeFrame /\ UNCHANGED environ

\* _build_env_patch: the variables a profile sets
build_env_patch(profile) == [key \in EnvKeys |-> profile]

\* the first loop of _invoke_agent: os.environ[key] = value
patched(env_patch) == [key \in EnvKeys |-> env_patch[key]]

\* its `finally`: a variable that was unset is popped, any other gets the
\* value saved in previous
restored(previous) == [key \in EnvKeys |-> previous[key]]

\* _invoke_agent up to the start event of run_prompt: the patch of
\* os.environ, then directories, LocalMacOSEnv, Qwen3VLAgent
wk_prepare(r, env) ==
    /\ wk[r].pc = "prepare"
    /\ \E outcome \in env.prepare :
         IF outcome = "ok"
         THEN /\ log_callback(r, "start", "none", TRUE)
              /\ wk' = [wk EXCEPT ![r].pc = "init", ![r].previous = environ]
              /\ environ' = patched(build_env_patch(wk[r].profile))
              /\ UNCHANGED fatal
         ELSE /\ worker_exit(r, FALSE)
              /\ Goto(r, "exited")
              /\ environ' = restored(environ)
              /\ fatal' = [fatal EXCEPT ![r] = "prepare"]
    /\ InvokeFrame

\* run_single_example: agent.reset, status "Initializing environment"
wk_init(r) ==
    /\ wk[r].pc = "init"
    /\ log_callback(r, "status", "none", FALSE)
    /\ Goto(r, "env_reset")
    /\ UNCHANGED fatal
    /\ WorkerFrame

\* env.reset and the initial screenshot event, or an exception of env.reset
wk_env_reset(r, env) ==
    /\ wk[r].pc = "env_reset"
    /\ \E outcome \in env.reset :
         IF outcome = "ok"
         THEN /\ log_callback(r, "screenshot", "none", FALSE)
              /\ wk' = [wk EXCEPT ![r].pc = "rec_start",
                                  ![r].traj = Append(wk[r].traj, "reset")]
              /\ UNCHANGED fatal
         ELSE /\ Goto(r, "except")
              /\ fatal' = [fatal EXCEPT ![r] = "episode"]
              /\ UNCHANGED <<ready, made>>
    /\ WorkerFrame

\* env.controller.start_recording and its status event
wk_rec_start(r) ==
    /\ wk[r].pc = "rec_start"
    /\ log_callback(r, "status", "none", FALSE)
    /\ Goto(r, "loop")
    /\ UNCHANGED fatal
    /\ WorkerFrame

\* head of `while not done and step_idx < max_steps`: the cancellation poll,
\* then agent.predict is entered
wk_loop_one_more(r) ==
    /\ wk[r].pc = "loop"
    /\ IF wk[r].done \/ wk[r].step_idx > max_steps
       THEN Goto(r, "eval") /\ UNCHANGED <<ready, made>>
       ELSE IF run[r].cancel_event
       THEN log_callback(r, "status", "none", FALSE) /\ Goto(r, "eval")
       ELSE /\ wk' = [wk EXCEPT ![r].pc = "predict",
                               ![r].predicts = wk[r].predicts + 1]
            /\ UNCHANGED <<ready, made>>
    /\ UNCHANGED fatal
    /\ WorkerFrame
wk_loop(r) ==
    /\ wk[r].pc = "loop"
    /\ IF wk[r].done \/ wk[r].step_idx >= max_steps
       THEN Goto(r, "eval") /\ UNCHANGED <<ready, made>>
       ELSE IF run[r].cancel_event
       THEN log_callback(r, "status", "none", FALSE) /\ Goto(r, "eval")
       ELSE /\ wk' = [wk EXCEPT ![r].pc = "predict",
                               ![r].predicts = wk[r].predicts + 1]
            /\ UNCHANGED <<ready, made>>
    /\ UNCHANGED fatal
    /\ WorkerFrame

\* agent.predict returns or raises
wk_predict(r, env) ==
    /\ wk[r].pc = "predict"
    /\ \E reply \in env.replies :
         IF reply.raises
         THEN /\ Goto(r, "except")
              /\ fatal' = [fatal EXCEPT ![r] = "predict"]
         ELSE /\ wk' = [wk EXCEPT ![r].pc = "skill_log", ![r].html = reply.html,
                               ![r].actions = reply.actions,
                               ![r].skills = reply.skills, ![r].logged = 0]
              /\ UNCHANGED fatal
    /\ UNCHANGED <<ready, made>>
    /\ WorkerFrame

\* one skill event per skill output, then the checks on the reply
wk_skill_log_unrecorded(r) ==
    /\ wk[r].pc = "skill_log"
    /\ IF wk[r].logged < wk[r].skills
       THEN /\ log_callback(r, "skill", "none", FALSE)
            /\ wk' = [wk EXCEPT ![r].logged = wk[r].logged + 1]
            /\ UNCHANGED fatal
       ELSE /\ UNCHANGED <<ready, made>>
            /\ IF wk[r].html
               THEN Goto(r, "except") /\ fatal' = [fatal EXCEPT ![r] = "episode"]
               ELSE IF wk[r].actions = <<>>
               THEN IF wk[r].step_idx = 0 /\ wk[r].skills = 0
                    THEN Goto(r, "except") /\ fatal' = [fatal EXCEPT ![r] = "episode"]
                    ELSE Goto(r, "eval") /\ UNCHANGED fatal
               ELSE /\ wk' = [wk EXCEPT ![r].pc = "action", ![r].skills = 0,
                                       ![r].logged = 0]
                    /\ UNCHANGED fatal
    /\ WorkerFrame
wk_skill_log(r) ==
    /\ wk[r].pc = "skill_log"
    /\ IF wk[r].logged < wk[r].skills
       THEN /\ log_callback(r, "skill", "none", FALSE)
            /\ wk' = [wk EXCEPT ![r].logged = wk[r].logged + 1]
            /\ UNCHANGED fatal
       ELSE /\ UNCHANGED <<ready, made>>
            /\ IF wk[r].html
               THEN Goto(r, "except") /\ fatal' = [fatal EXCEPT ![r] = "episode"]
               ELSE IF wk[r].actions = <<>>
               THEN IF wk[r].skills > 0
                    THEN /\ wk' = [wk EXCEPT ![r].pc = "loop", ![r].skills = 0,
                                            ![r].logged = 0,
                                            ![r].traj = Append(wk[r].traj, "skill"),
                                            ![r].step_idx = wk[r].step_idx + 1]
                         /\ UNCHANGED fatal
                    ELSE IF wk[r].step_idx = 0
                    THEN Goto(r, "except") /\ fatal' = [fatal EXCEPT ![r] = "episode"]
                    ELSE Goto(r, "eval") /\ UNCHANGED fatal
               ELSE /\ wk' = [wk EXCEPT ![r].pc = "action", ![r].skills = 0,
                                       ![r].logged = 0]
                    /\ UNCHANGED fatal
    /\ WorkerFrame

\* `for action in actions`: the cancellation poll and the step event, or the
\* end of the turn
wk_action(r) ==
    /\ wk[r].pc = "action"
    /\ IF wk[r].actions = <<>>
       THEN /\ wk' = [wk EXCEPT ![r].pc = "loop", ![r].step_idx = wk[r].step_idx + 1]
            /\ UNCHANGED <<ready, made>>
       ELSE IF run[r].cancel_event
       THEN /\ log_callback(r, "status", "none", FALSE)
            /\ wk' = [wk EXCEPT ![r].pc = "loop", ![r].done = TRUE, ![r].actions = <<>>,
                             ![r].step_idx = wk[r].step_idx + 1]
       ELSE /\ log_callback(r, "step", "none", FALSE)
            /\ Goto(r, "env_step")
    /\ UNCHANGED fatal
    /\ WorkerFrame

\* env.step(action) and the screenshot event
wk_env_step_never_done(r) ==
    /\ wk[r].pc = "env_step"
    /\ log_callback(r, "screenshot", "none", FALSE)
    /\ wk' = [wk EXCEPT ![r].done = FALSE,
                        ![r].traj = Append(wk[r].traj, Head(wk[r].actions)),
                        ![r].actions = Tail(wk[r].actions),
                        ![r].pc = "action"]
    /\ UNCHANGED fatal
    /\ WorkerFrame
wk_env_step(r) ==
    /\ wk[r].pc = "env_step"
    /\ log_callback(r, "screenshot", "none", FALSE)
    /\ LET done == Head(wk[r].actions) \in {"DONE", "FAIL"}
       IN  wk' = [wk EXCEPT ![r].done = done,
                            ![r].traj = Append(wk[r].traj, Head(wk[r].actions)),
                            ![r].actions = Tail(wk[r].actions),
                            ![r].pc = IF done THEN "done_status" ELSE "action"]
    /\ UNCHANGED fatal
    /\ WorkerFrame

\* `if done:` the termination status event and the break
wk_done_status(r) ==
    /\ wk[r].pc = "done_status"
    /\ log_callback(r, "status", "none", FALSE)
    /\ wk' = [wk EXCEPT ![r].pc = "loop", ![r].actions = <<>>,
                        ![r].step_idx = wk[r].step_idx + 1]
    /\ UNCHANGED fatal
    /\ WorkerFrame

\* scores.append(None)
NoScore == -1

\* after the loop: the score, the result marker and the complete event
wk_eval_ignore_cancel(r) ==
    /\ wk[r].pc = "eval"
    /\ log_callback(r, "complete",
                    IF run[r].cancel_event THEN "cancelled"
                    ELSE complete_status(evaluate), TRUE)
    /\ wk' = [wk EXCEPT ![r].pc = "rec_end", ![r].evaluated = TRUE,
                        ![r].scores = Append(wk[r].scores, evaluate),
                        ![r].result_txt = <<evaluate>>]
    /\ UNCHANGED fatal
    /\ WorkerFrame
wk_eval(r) ==
    /\ wk[r].pc = "eval"
    /\ IF run[r].cancel_event
       THEN /\ log_callback(r, "complete", "cancelled", TRUE)
            /\ wk' = [wk EXCEPT ![r].pc = "rec_end",
                                ![r].scores = Append(wk[r].scores, NoScore)]
       ELSE IF enhanced_task
       THEN /\ log_callback(r, "complete", "pending", TRUE)
            /\ wk' = [wk EXCEPT ![r].pc = "rec_end",
                                ![r].scores = Append(wk[r].scores, NoScore),
                                ![r].result_txt = <<"PENDING_FOR_RM">>]
       ELSE /\ log_callback(r, "complete", complete_status(evaluate), TRUE)
            /\ wk' = [wk EXCEPT ![r].pc = "rec_end", ![r].evaluated = TRUE,
                                ![r].scores = Append(wk[r].scores, evaluate),
                                ![r].result_txt = <<evaluate>>]
    /\ UNCHANGED fatal
    /\ WorkerFrame

\* env.controller.end_recording; "Recording saved" when the file exists
wk_rec_end(r, env) ==
    /\ wk[r].pc = "rec_end"
    /\ \E saved \in env.saved :
         IF saved THEN log_callback(r, "status", "none", FALSE)
                  ELSE UNCHANGED <<ready, made>>
    /\ Goto(r, "return")
    /\ UNCHANGED fatal
    /\ WorkerFrame

\* run_prompt returns its result dict (finally: env.close), and the
\* `finally` of _invoke_agent restores os.environ
wk_return(r) ==
    /\ wk[r].pc = "return"
    /\ worker_exit(r, TRUE)
    /\ Goto(r, "exited")
    /\ environ' = restored(wk[r].previous)
    /\ UNCHANGED fatal
    /\ InvokeFrame

\* run_prompt's `except Exception`: the error event
wk_except(r) ==
    /\ wk[r].pc = "except"
    /\ log_callback(r, "error", "none", TRUE)
    /\ Goto(r, "reraise")
    /\ UNCHANGED fatal
    /\ WorkerFrame

\* ... and the re-raise, which ends the thread with the exception after the
\* `finally` of _invoke_agent
wk_reraise(r) ==
    /\ wk[r].pc = "reraise"
    /\ worker_exit(r, FALSE)
    /\ Goto(r, "exited")
    /\ environ' = restored(wk[r].previous)
    /\ UNCHANGED fatal
    /\ InvokeFrame

\* ------------------------------------------------------------------ agent
\* qwen_agent.MAX_SKILL_TURNS
MAX_SKILL_TURNS == 3
\* max_tries of the backoff decorator of call_llm
max_tries == 5

\* the exception classes backoff.on_exception retries
Retried == {"httpx.HTTPError", "RuntimeError"}

\* the failures of one provider request, each with its exception class
Failure(kind, class) == [ok |-> FALSE, kind |-> kind, class |-> class, text |-> NoText]
NoApiKey == Failure("missing credentials", "RuntimeError")
Failures ==
    { Failure("transport", "httpx.HTTPError"),
      Failure("missing content", "RuntimeError"),
      Failure("sdk", "openai.APIError") }

Answer(text) == [ok |-> TRUE, kind |-> "none", class |-> "none", text |-> text]

\* the SkillRepository of the service: one skill file
Skills == {[id |-> "open-app", title |-> "Open App"]}
NoSkill == [id |-> "", title |-> ""]

\* str.strip().lower() on the titles and references in use
Lower(t) ==
    CASE t = "Open App" -> "open app"
      [] t = "OPEN APP" -> "open app"
      [] t = "Action:" -> "action:"
      [] t = "ACTION:" -> "action:"
      [] t = "Left_Click" -> "left_click"
      [] t = "CLICK" -> "click"
      [] t = "CTRL" -> "ctrl"
      [] t = "Control" -> "control"
      [] OTHER -> t

\* SkillRepository.get_by_title: None when no title matches
get_by_title(title) ==
    IF \E skill \in Skills : Lower(skill.title) = Lower(title)
    THEN CHOOSE skill \in Skills : Lower(skill.title) = Lower(title)
    ELSE NoSkill

\* SkillManager.lookup: by id, and on KeyError by title
lookup(repo, reference) ==
    IF repo = "none" \/ reference = ""
    THEN NoSkill
    ELSE IF \E skill \in Skills : skill.id = reference
    THEN CHOOSE skill \in Skills : skill.id = reference
    ELSE get_by_title(reference)

\* SkillManager.build_skill_reply: the text of the reply and `found`
build_skill_reply_found(repo, reference) ==
    [text |-> "Here is the stored skill", about |-> lookup(repo, reference).title,
     found |-> TRUE]
build_skill_reply(repo, reference) ==
    LET skill == lookup(repo, reference)
    IN  IF skill # NoSkill
        THEN [text |-> "Here is the stored skill", about |-> skill.title, found |-> TRUE]
        ELSE [text |-> "is not available. Continue the task without it.",
              about |-> reference, found |-> FALSE]

\* one entry of latest_skill_outputs
skill_output(repo, ref) ==
    LET reply == build_skill_reply(repo, ref)
    IN  [title |-> ref, body |-> reply.text, available |-> reply.found]

\* the messages of the conversation, by role and content
\* a message has at most one text part, `content` ("" for none), and at
\* most one image part, `image` (0 for none)
Message(role, content) == [role |-> role, content |-> content, image |-> 0]

\* PromptBuilder.build_user_message
build_user_message(text, image_base64) ==
    [role |-> "user", content |-> text, image |-> image_base64]

\* the system message, whose text build_system_prompt makes of the
\* viewport and the skill section
SystemMessage(width, height, skill_section) ==
    [role |-> "system", content |-> "prompt", image |-> 0,
     width |-> width, height |-> height, skill_section |-> skill_section]

\* SkillRepository.list_titles on the repository of the service
list_titles == <<"Open App">>

\* SkillManager._get_catalog: the catalog after the call; without a
\* repository it stays None
get_catalog(a) ==
    IF a.catalog = NoCatalog /\ a.repo # "none" THEN list_titles ELSE a.catalog

\* SkillManager.build_catalog_section on that catalog: the titles listed,
\* none for "(no skills available)"
build_catalog_section(catalog) == IF catalog = NoCatalog THEN <<>> ELSE catalog

\* Qwen3VLAgent._ensure_system_prompt
ensure_system_prompt_insert(a, width, height) ==
    [a EXCEPT !.catalog = get_catalog(a),
              !.messages = <<SystemMessage(width, height,
                                 build_catalog_section(get_catalog(a)))>> \o a.messages,
              !.screen_width = width, !.screen_height = height]
ensure_system_prompt(a, width, height) ==
    IF a.screen_width = width /\ a.screen_height = height /\ a.messages # <<>>
    THEN a
    ELSE LET catalog == get_catalog(a)
             system == SystemMessage(width, height, build_catalog_section(catalog))
         IN  [a EXCEPT !.catalog = catalog,
                       !.messages =
                           IF a.messages # <<>> /\ a.messages[1].role = "system"
                           THEN <<system>> \o Tail(a.messages)
                           ELSE <<system>> \o a.messages,
                       !.screen_width = width, !.screen_height = height]

\* the defaults of _prepare_messages_for_send
max_messages == 12
max_images == 1

Omitted == "(previous screenshot omitted)"

\* the loop of _prepare_messages_for_send over reversed(remaining), from
\* message i down; `trimmed` is kept in chronological order
RECURSIVE trim(_, _, _, _)
trim(remaining, i, image_budget, trimmed) ==
    IF i = 0 \/ Len(trimmed) >= max_messages
    THEN trimmed
    ELSE LET raw == remaining[i]
             keep == raw.image # 0 /\ image_budget > 0
             content == IF raw.content # "" THEN raw.content
                        ELSE IF raw.image # 0 /\ ~keep THEN Omitted
                        ELSE ""
             entry == [role |-> raw.role, content |-> content,
                       image |-> IF keep THEN raw.image ELSE 0]
         IN  trim(remaining, i - 1,
                  IF keep THEN image_budget - 1 ELSE image_budget,
                  <<entry>> \o trimmed)

\* Qwen3VLAgent._prepare_messages_for_send
prepare_messages_for_send(messages) ==
    IF messages = <<>>
    THEN <<>>
    ELSE IF messages[1].role = "system"
    THEN <<messages[1]>> \o trim(Tail(messages), Len(messages) - 1, max_images, <<>>)
    ELSE trim(messages, Len(messages), max_images, <<>>)

\* Qwen3VLAgent.reset and SkillManager.reset_cache
reset_keep_started(a) ==
    [a EXCEPT !.messages = <<>>, !.executed_actions = 0,
              !.screen_width = 0, !.screen_height = 0,
              !.latest_skill_outputs = <<>>, !.catalog = NoCatalog]
reset(a) ==
    [a EXCEPT !.messages = <<>>, !.conversation_started = FALSE,
              !.executed_actions = 0,
              !.screen_width = 0, !.screen_height = 0,
              !.latest_skill_outputs = <<>>, !.catalog = NoCatalog]

\* what predict reads of the observation: the size of the screenshot and
\* the processed image that goes into the message
Observation(width, height, image) ==
    [width |-> width, height |-> height, image |-> image]

\* predict up to the first provider request: the system prompt, the user
\* message with the screenshot (and the instruction in the first call),
\* the locals of _chat_with_skills and its first payload
predict_begin(a, instruction, obs) ==
    LET prompted == ensure_system_prompt(a, obs.width, obs.height)
        user == build_user_message(IF a.conversation_started THEN "" ELSE instruction,
                                   obs.image)
        messages == Append(prompted.messages, user)
    IN  [prompted EXCEPT !.pc = "call_llm",
                         !.messages = messages,
                         !.conversation_started = TRUE,
                         !.latest_skill_outputs = <<>>,
                         !.skill_turns = 0, !.calls = 1, !.tries = 0,
                         !.failure = "none", !.response_raw = NoText,
                         !.payload = prepare_messages_for_send(messages)]

\* the words of a compiled command that the step-limit test looks for with
\* `in`: the command typing the text DONE contains the word DONE
Words(code) ==
    CASE code = "DONE" -> {"DONE"}
      [] code = "FAIL" -> {"FAIL"}
      [] code = "type DONE" -> {"DONE"}
      [] OTHER -> {}

StepLimitReason == "Fail the task because reaching the maximum step limit."

\* predict, lines 183-200: the step-limit override and the pair returned;
\* low_level_instruction is overwritten, response_display is returned
predict_result(executed, response_display, pyautogui_code) ==
    IF /\ executed >= max_steps
       /\ pyautogui_code # <<>>
       /\ "DONE" \notin Words(pyautogui_code[1])
       /\ "FAIL" \notin Words(pyautogui_code[1])
    THEN [response |-> response_display, actions |-> <<"FAIL">>]
    ELSE [response |-> response_display, actions |-> pyautogui_code]

\* a step inside agent.predict touches nothing of the loop but the worker
AgentFrame ==
    /\ ret' = NoRet
    /\ UNCHANGED <<runs, run, next_id, task, ready, timers, made, subs, parser, store, environ>>

\* the instruction of the run, and the observation env hands to predict: the
\* screen of the machine and the next screenshot
Task == "open the browser"
NextImage(a) == Cardinality({i \in 1..Len(a.messages) : a.messages[i].image # 0}) + 1
Screenshot(a) == Observation(1920, 1080, NextImage(a))

\* one request of call_llm comes back: an answer, which _chat_with_skills
\* appends to the conversation, or a failure that backoff retries after the
\* interval or lets through
call_llm(a, outcome) ==
    IF outcome.ok
    THEN [a EXCEPT !.pc = IF outcome.text.skills = <<>> THEN "compile" ELSE "skills",
                   !.messages = Append(a.messages, Message("assistant", "reply")),
                   !.tries = a.tries + 1, !.failure = "none",
                   !.response_raw = outcome.text]
    ELSE IF outcome.class \in Retried /\ a.tries + 1 < max_tries
    THEN [a EXCEPT !.tries = a.tries + 1, !.failure = outcome.kind]
    ELSE [a EXCEPT !.pc = "raised", !.tries = a.tries + 1, !.failure = outcome.kind]

\* the <skill> requests of the reply are answered, one user message each;
\* the loop goes on with the next request unless the turn bound is reached
chat_with_skills(a) ==
    LET refs == a.response_raw.skills
        outputs == [i \in 1..Len(refs) |-> skill_output(a.repo, refs[i])]
        replies == [i \in 1..Len(refs) |-> Message("user", outputs[i].body)]
        bound == a.skill_turns + 1 >= MAX_SKILL_TURNS
    IN  [a EXCEPT !.pc = IF bound THEN "compile" ELSE "call_llm",
                  !.latest_skill_outputs = outputs,
                  !.messages = a.messages \o replies,
                  !.skill_turns = a.skill_turns + 1,
                  !.calls = IF bound THEN a.calls ELSE a.calls + 1,
                  !.tries = IF bound THEN a.tries ELSE 0,
                  !.payload = IF bound THEN a.payload
                              ELSE prepare_messages_for_send(a.messages \o replies)]

\* the rest of predict: the reply is compiled, the turn is counted, the
\* step limit is applied and the pair goes back to the caller
predict_return(a) ==
    [a EXCEPT !.pc = "idle", !.executed_actions = a.executed_actions + 1,
              !.result = predict_result(a.executed_actions + 1, a.response_raw.say,
                                        a.response_raw.code)]

\* predict is entered by the loop of the worker
ag_predict_begin(r) ==
    /\ wk[r].pc = "predict" /\ agent[r].pc = "idle"
    /\ agent' = [agent EXCEPT ![r] = predict_begin(agent[r], Task, Screenshot(agent[r]))]
    /\ UNCHANGED <<wk, fatal>>
    /\ AgentFrame

\* a provider request of the worker's predict comes back; an exception that
\* leaves predict is caught by the worker
ag_call_llm(r, env) ==
    /\ wk[r].pc = "predict" /\ agent[r].pc = "call_llm"
    /\ \E outcome \in (IF agent[r].api_key THEN env.provider ELSE {NoApiKey}) :
         \E a \in {call_llm(agent[r], outcome)} :
            /\ agent' = [agent EXCEPT ![r] = a]
            /\ IF a.pc = "raised"
               THEN Goto(r, "except") /\ fatal' = [fatal EXCEPT ![r] = "predict"]
               ELSE UNCHANGED <<wk, fatal>>
    /\ AgentFrame

\* a skill round of the worker's predict
ag_skills_no_bound(r) ==
    /\ wk[r].pc = "predict" /\ agent[r].pc = "skills"
    /\ LET a == agent[r]
           refs == a.response_raw.skills
           outputs == [i \in 1..Len(refs) |-> skill_output(a.repo, refs[i])]
           replies == [i \in 1..Len(refs) |-> Message("user", outputs[i].body)]
       IN  agent' = [agent EXCEPT ![r] =
               [a EXCEPT !.pc = "call_llm",
                         !.latest_skill_outputs = outputs,
                         !.messages = a.messages \o replies,
                         !.skill_turns = a.skill_turns + 1,
                         !.calls = a.calls + 1,
                         !.tries = 0]]
    /\ UNCHANGED <<wk, fatal>>
    /\ AgentFrame
ag_skills(r) ==
    /\ wk[r].pc = "predict" /\ agent[r].pc = "skills"
    /\ agent' = [agent EXCEPT ![r] = chat_with_skills(agent[r])]
    /\ UNCHANGED <<wk, fatal>>
    /\ AgentFrame

\* predict returns to the loop of the worker
ag_return(r) ==
    /\ wk[r].pc = "predict" /\ agent[r].pc = "compile"
    /\ \E a \in {predict_return(agent[r])} :
           /\ agent' = [agent EXCEPT ![r] = a]
           /\ wk' = [wk EXCEPT ![r].pc = "skill_log",
                               ![r].html = a.response_raw.html,
                               ![r].actions = a.result.actions,
                               ![r].skills = Len(a.latest_skill_outputs),
                               ![r].logged = 0]
    /\ UNCHANGED fatal
    /\ AgentFrame

\* the engine on its own: a caller that owns it calls predict and reset in
\* any order, and the provider answers its requests
ChatFrame == UNCHANGED <<runs, run, next_id, task, wk, ready, timers, made, fatal,
                        ret, subs, parser, store, environ>>

call_predict(instruction, obs) ==
    /\ agent[1].pc \in {"idle", "raised"}
    /\ Len(agent[1].messages) < MaxHistory
    /\ agent' = [agent EXCEPT ![1] = predict_begin(agent[1], instruction, obs)]
    /\ ChatFrame

call_llm_returns(outcome) ==
    /\ agent[1].pc = "call_llm"
    /\ agent' = [agent EXCEPT ![1] = call_llm(agent[1], outcome)]
    /\ ChatFrame

call_skills ==
    /\ agent[1].pc = "skills"
    /\ agent' = [agent EXCEPT ![1] = chat_with_skills(agent[1])]
    /\ ChatFrame

call_predict_returns ==
    /\ agent[1].pc = "compile"
    /\ agent' = [agent EXCEPT ![1] = predict_return(agent[1])]
    /\ ChatFrame

call_reset ==
    /\ agent[1].pc \in {"idle", "raised"}
    /\ agent' = [agent EXCEPT ![1] = [reset(agent[1]) EXCEPT !.pc = "idle"]]
    /\ ChatFrame

\* ------------------------------------------------------------------ floats
\* A Python float is an IEEE-754 binary64 number.  A positive one is kept as
\* its Precision binary digits, most significant first and starting with 1,
\* and an exponent: value = digits * 2^exp.  Zero has no digits.
Precision == 53
\* long arithmetic is done on limbs of Limb binary digits, and a quotient is
\* computed to QuotientLimbs limbs below the point, enough to round it
Limb == 14
QuotientLimbs == 5

Zero == [digits |-> <<>>, exp |-> 0]

\* the binary digits of a natural number below 2^30, most significant first
IntBits(n) ==
    LET len == CHOOSE l \in 0..30 : n < 2^l /\ (l = 0 \/ n >= 2^(l - 1))
    IN  [i \in 1..len |-> (n \div 2^(len - i)) % 2]

\* the number a sequence of binary digits stands for
RECURSIVE BitsToInt(_)
BitsToInt(b) ==
    IF Len(b) = 0 THEN 0
    ELSE IF Len(b) = 1 THEN b[1]
    ELSE LET h == Len(b) \div 2
         IN  BitsToInt(SubSeq(b, 1, h)) * 2^(Len(b) - h)
                 + BitsToInt(SubSeq(b, h + 1, Len(b)))

\* the binary digits of a sequence of limbs
LimbBits(limbs) ==
    [i \in 1..(Len(limbs) * Limb) |->
        (limbs[(i - 1) \div Limb + 1] \div 2^(Limb - 1 - ((i - 1) % Limb))) % 2]

\* the limbs of Precision binary digits
BitLimbs(digits) ==
    LET n == (Precision + Limb - 1) \div Limb
        bits == [i \in 1..(n * Limb - Precision) |-> 0] \o digits
    IN  [j \in 1..n |-> BitsToInt(SubSeq(bits, (j - 1) * Limb + 1, j * Limb))]

\* binary digits without their leading zeros
Strip(b) ==
    IF \A i \in 1..Len(b) : b[i] = 0
    THEN <<>>
    ELSE LET k == CHOOSE i \in 1..Len(b) : b[i] = 1 /\ \A j \in 1..(i - 1) : b[j] = 0
         IN  SubSeq(b, k, Len(b))

\* digits + 1, for digits that are not all 1
Inc(m) ==
    LET k == CHOOSE i \in 1..Len(m) : m[i] = 0 /\ \A j \in (i + 1)..Len(m) : m[j] = 1
    IN  [i \in 1..Len(m) |-> IF i < k THEN m[i] ELSE IF i = k THEN 1 ELSE 0]

\* round-to-nearest, ties-to-even, of the exact value b * 2^exp (plus a
\* non-zero rest below the last digit of b when sticky) to Precision digits
Round(b, sticky, exp) ==
    IF Len(b) <= Precision
    THEN [digits |-> b \o [i \in 1..(Precision - Len(b)) |-> 0],
          exp |-> exp - (Precision - Len(b))]
    ELSE LET m == SubSeq(b, 1, Precision)
             rest == sticky \/ \E i \in (Precision + 2)..Len(b) : b[i] = 1
             up == b[Precision + 1] = 1 /\ (rest \/ m[Precision] = 1)
             e == exp + Len(b) - Precision
         IN  IF ~up THEN [digits |-> m, exp |-> e]
             ELSE IF \A i \in 1..Precision : m[i] = 1
             THEN [digits |-> [i \in 1..Precision |-> IF i = 1 THEN 1 ELSE 0],
                   exp |-> e + 1]
             ELSE [digits |-> Inc(m), exp |-> e]

\* k further limbs of r/d (r < d < 2^17) after `limbs`, and the remainder
RECURSIVE Expand(_, _, _, _)
Expand(limbs, r, d, k) ==
    IF k = 0
    THEN [limbs |-> limbs, rem |-> r]
    ELSE Expand(Append(limbs, (r * 2^Limb) \div d), (r * 2^Limb) % d, d, k - 1)

\* n / d for positive integers n and d
float_div(n, d) ==
    LET frac == Expand(<<>>, n % d, d, QuotientLimbs)
    IN  Round(Strip(IntBits(n \div d) \o LimbBits(frac.limbs)), frac.rem # 0,
              0 - QuotientLimbs * Limb)

\* the limbs of x * m (x < 2^17), most significant first: m is taken from
\* its last limb i backwards with the carry
RECURSIVE MulLimbs(_, _, _, _, _)
MulLimbs(x, m, i, carry, acc) ==
    IF i = 0
    THEN [carry |-> carry, limbs |-> acc]
    ELSE MulLimbs(x, m, i - 1, (x * m[i] + carry) \div 2^Limb,
                  <<(x * m[i] + carry) % 2^Limb>> \o acc)

\* x * f for a natural number x and a float f
float_mul(x, f) ==
    IF x = 0 \/ f = Zero
    THEN Zero
    ELSE LET m == BitLimbs(f.digits)
             product == MulLimbs(x, m, Len(m), 0, <<>>)
         IN  Round(Strip(IntBits(product.carry) \o LimbBits(product.limbs)),
                   FALSE, f.exp)

\* int(f): the integer part of a float below 2^30
float_to_int(f) ==
    IF f = Zero \/ Precision + f.exp <= 0
    THEN 0
    ELSE BitsToInt(SubSeq(f.digits, 1, Precision + f.exp))

\* ----------------------------------------------------------------- parser
\* adjust_coordinates for natural numbers x and y
adjust_coordinates(x, y, c) ==
    IF ~(c.original_width # 0 /\ c.original_height # 0)
    THEN <<x, y>>
    ELSE IF c.coordinate_type = "absolute"
    THEN IF c.processed_width # 0 /\ c.processed_height # 0
         THEN LET x_scale == float_div(c.original_width, c.processed_width)
                  y_scale == float_div(c.original_height, c.processed_height)
              IN  <<float_to_int(float_mul(x, x_scale)), float_to_int(float_mul(y, y_scale))>>
         ELSE <<x, y>>
    ELSE LET base == IF c.coordinate_type = "relative" THEN 1000 ELSE 999
             x_scale == float_div(c.original_width, base)
             y_scale == float_div(c.original_height, base)
         IN  <<float_to_int(float_mul(x, x_scale)), float_to_int(float_mul(y, y_scale))>>

\* what adjust_coordinates raises on a value that is no number: int() of a
\* word or of null when the sizes are not used, a product with a float
\* otherwise
adjust_raises(v, c) ==
    IF v.type = "number" THEN "none"
    ELSE IF v.type # "string" THEN "TypeError"
    ELSE IF ~(c.original_width # 0 /\ c.original_height # 0) THEN "ValueError"
    ELSE IF c.coordinate_type = "absolute"
            /\ ~(c.processed_width # 0 /\ c.processed_height # 0)
    THEN "ValueError"
    ELSE "TypeError"

\* what `x, y = value` raises
unpack_raises(v) ==
    IF v.type \in {"list", "string"}
    THEN IF Len(v.value) = 2 THEN "none" ELSE "ValueError"
    ELSE "TypeError"

\* the decimal digits of a natural number, as an f-string writes them
RECURSIVE Digits(_)
Digits(n) ==
    LET d == <<"0", "1", "2", "3", "4", "5", "6", "7", "8", "9">>
    IN  IF n < 10 THEN d[n + 1] ELSE Digits(n \div 10) \o d[(n % 10) + 1]

\* a value as an f-string or str() writes it
Format(v) == IF v.type = "number" THEN Digits(v.value) ELSE v.value

\* a compiled command: the function it calls and the arguments as written
Command(call, args) == [call |-> call, args |-> args]

\* the pyautogui function of each action that takes a coordinate
Pointer ==
    [left_click |-> "pyautogui.click", right_click |-> "pyautogui.rightClick",
     middle_click |-> "pyautogui.middleClick", double_click |-> "pyautogui.doubleClick",
     mouse_move |-> "pyautogui.moveTo", left_click_drag |-> "pyautogui.dragTo"]

\* the outcome of compiling one block: the commands appended, or the
\* exception that leaves process_tool_call
Appended(code) == [raised |-> "none", code |-> code]
Raised(exception) == [raised |-> exception, code |-> <<>>]

\* _coerce_json: duplicated closing braces are stripped, other damage is not
\* repaired
coerce_json(text) ==
    IF ~text.broken /\ text.extra = 0
    THEN text.object
    ELSE LET stripped == [text EXCEPT !.extra = 0]
         IN  IF stripped.broken THEN Null ELSE stripped.object

\* the arguments of a tool call: those of a computer_use call, or the call
\* itself when it names an action; Null when there are none
arguments_of(tool_call) ==
    IF "name" \in DOMAIN tool_call /\ tool_call.name = "computer_use"
       /\ "arguments" \in DOMAIN tool_call
    THEN tool_call.arguments
    ELSE IF "action" \in DOMAIN tool_call THEN tool_call ELSE Null

\* the action name after strip, lower and the alias map
action_of(args) ==
    LET action == IF "action" \in DOMAIN args THEN Lower(args.action) ELSE ""
    IN  IF action = "click" THEN "left_click" ELSE action

\* one key of a "key" action, cleaned
clean_key(key) ==
    IF key.type # "string" THEN key
    ELSE IF Lower(key.value) \in {"ctrl", "control"} THEN Str("command")
    ELSE key

\* the letters of a word
Letters(word) == [i \in 1..Len(word) |-> Str(SubSeq(word, i, i))]

\* the branch of process_tool_call for the action "key"
press_keys(args) ==
    LET given == IF "keys" \in DOMAIN args THEN args.keys ELSE List(<<>>)
        keys == IF given.type = "list"
                THEN [i \in 1..Len(given.value) |-> clean_key(given.value[i])]
                ELSE IF given.type = "string" THEN Letters(given.value)
                ELSE <<>>
    IN  IF given.type \notin {"list", "string"}
        THEN Raised("TypeError")
        ELSE Appended(<<Command(IF Len(keys) > 1 THEN "pyautogui.hotkey"
                                                 ELSE "pyautogui.press",
                                [i \in 1..Len(keys) |-> Format(keys[i])])>>)

\* the command of a pointer action on the adjusted pair
point_at(action, adj) ==
    Appended(<<Command(Pointer[action], <<Digits(adj[1]), Digits(adj[2])>>)>>)

\* the branches of process_tool_call for the actions that take a coordinate
point(action, args, c) ==
    IF "coordinate" \notin DOMAIN args
    THEN IF action \in {"mouse_move", "left_click_drag"}
         THEN Appended(<<Command(Pointer[action], <<"0", "0">>)>>)
         ELSE Appended(<<Command(Pointer[action], <<>>)>>)
    ELSE IF unpack_raises(args.coordinate) # "none"
    THEN Raised(unpack_raises(args.coordinate))
    ELSE LET x == IF args.coordinate.type = "list" THEN args.coordinate.value[1]
                  ELSE Letters(args.coordinate.value)[1]
             y == IF args.coordinate.type = "list" THEN args.coordinate.value[2]
                  ELSE Letters(args.coordinate.value)[2]
         IN  IF adjust_raises(x, c) # "none" THEN Raised(adjust_raises(x, c))
             ELSE IF adjust_raises(y, c) # "none" THEN Raised(adjust_raises(y, c))
             ELSE point_at(action, adjust_coordinates(x.value, y.value, c))

\* process_tool_call: what one block appends to pyautogui_code, or the
\* exception it lets through (it catches JSONDecodeError and KeyError only)
process_tool_call(json_str, c) ==
    LET tool_call == coerce_json(json_str)
        args == IF tool_call = Null THEN Null ELSE arguments_of(tool_call)
        action == IF args = Null THEN "" ELSE action_of(args)
    IN  IF tool_call = Null \/ args = Null THEN Appended(<<>>)
        ELSE IF action \in DOMAIN Pointer THEN point(action, args, c)
        ELSE IF action = "type"
        THEN Appended(<<Command("pyperclip.copy",
                                <<IF "text" \in DOMAIN args THEN Format(args.text) ELSE "">>)>>)
        ELSE IF action = "key" THEN press_keys(args)
        ELSE IF action = "scroll"
        THEN Appended(<<Command("pyautogui.scroll",
                                <<IF "pixels" \in DOMAIN args THEN Format(args.pixels) ELSE "0">>)>>)
        ELSE IF action = "wait" THEN Appended(<<Command("WAIT", <<>>)>>)
        ELSE IF action = "terminate" THEN Appended(<<Command("DONE", <<>>)>>)
        ELSE Appended(<<>>)

\* the loop of parse_response over the blocks from the i-th on
RECURSIVE compile(_, _, _, _)
\* ... after `one`, the outcome of the i-th block
compile_rest(blocks, i, c, code, one) ==
    IF one.raised # "none" THEN one ELSE compile(blocks, i + 1, c, code \o one.code)

compile(blocks, i, c, code) ==
    IF i > Len(blocks)
    THEN Appended(code)
    ELSE compile_rest(blocks, i, c, code, process_tool_call(blocks[i], c))

\* the word between the first "." and the first "(" of a command, or the
\* command itself when it has no "."
action_type(cmd) ==
    CASE cmd.call = "pyautogui.click" -> "click"
      [] cmd.call = "pyautogui.rightClick" -> "rightClick"
      [] cmd.call = "pyautogui.middleClick" -> "middleClick"
      [] cmd.call = "pyautogui.doubleClick" -> "doubleClick"
      [] cmd.call = "pyautogui.moveTo" -> "moveTo"
      [] cmd.call = "pyautogui.dragTo" -> "dragTo"
      [] cmd.call = "pyautogui.hotkey" -> "hotkey"
      [] cmd.call = "pyautogui.press" -> "press"
      [] cmd.call = "pyautogui.scroll" -> "scroll"
      [] cmd.call = "pyperclip.copy" -> "copy"
      [] OTHER -> cmd.call

\* the end of parse_response, `done` being the outcome of its loop
summarise(action_text, done) ==
    IF done.raised # "none"
    THEN [raised |-> done.raised, low_level_instruction |-> "", pyautogui_code |-> <<>>]
    ELSE [raised |-> "none",
          low_level_instruction |->
              IF action_text = "" /\ Len(done.code) > 0
              THEN "Performing " \o action_type(done.code[1]) \o " action"
              ELSE action_text,
          pyautogui_code |-> done.code]

\* parse_response: the summary and the commands, or the exception raised
parse_response(response, c) ==
    LET head == response.head
        action_text == IF head = NoActionLine THEN "" ELSE head.remainder
        \* line.split("Action:", 1)[1] of a line in another spelling
        split_fails == head # NoActionLine /\ action_text = "" /\ head.prefix # "Action:"
    IN  IF split_fails
        THEN [raised |-> "IndexError", low_level_instruction |-> "", pyautogui_code |-> <<>>]
        ELSE summarise(action_text, compile(response.blocks, 1, c, <<>>))

\* a call of parse_response touches nothing of the service
ParserFrame ==
    /\ ret' = NoRet
    /\ UNCHANGED <<runs, run, next_id, task, wk, ready, timers, made, fatal, subs, agent, store, environ>>

\* parse_response is called with a reply of the model
parse_response_call(response, c) ==
    /\ parser.pc = "idle"
    /\ parser' = [NoParse EXCEPT !.pc = "called", !.response = response, !.sizes = c]
    /\ ParserFrame

\* ... and returns the summary and the compiled code, or raises
parse_response_return ==
    /\ parser.pc = "called"
    /\ \E out \in {parse_response(parser.response, parser.sizes)} :
           parser' = [parser EXCEPT
                         !.pc = IF out.raised = "none" THEN "parsed" ELSE "raised",
                         !.raised = out.raised,
                         !.low_level_instruction = out.low_level_instruction,
                         !.pyautogui_code = out.pyautogui_code]
    /\ ParserFrame

\* ------------------------------------------------------------ skill store
\* the i-th character of a text
Char(s, i) == SubSeq(s, i, i)

\* the characters str.strip() removes
Whitespace == {" ", "\n"}

\* str.lstrip(chars), str.rstrip(chars), str.strip(chars)
lstrip(s, chars) ==
    LET k == CHOOSE i \in 1..(Len(s) + 1) :
                 /\ i = Len(s) + 1 \/ Char(s, i) \notin chars
                 /\ \A j \in 1..(i - 1) : Char(s, j) \in chars
    IN  SubSeq(s, k, Len(s))
rstrip(s, chars) ==
    LET k == CHOOSE i \in 0..Len(s) :
                 /\ i = 0 \/ Char(s, i) \notin chars
                 /\ \A j \in (i + 1)..Len(s) : Char(s, j) \in chars
    IN  SubSeq(s, 1, k)
strip(s, chars) == lstrip(rstrip(s, chars), chars)

\* str.lower() of one character
lower(ch) ==
    CASE ch = "A" -> "a"
      [] ch = "B" -> "b"
      [] OTHER -> ch

\* str.splitlines()
RECURSIVE splitlines(_)
splitlines(s) ==
    IF s = "" THEN <<>>
    ELSE IF \A i \in 1..Len(s) : Char(s, i) # "\n" THEN <<s>>
    ELSE LET k == CHOOSE i \in 1..Len(s) :
                      Char(s, i) = "\n" /\ \A j \in 1..(i - 1) : Char(s, j) # "\n"
         IN  <<SubSeq(s, 1, k - 1)>> \o splitlines(SubSeq(s, k + 1, Len(s)))

\* "\n".join(lines)
RECURSIVE join(_)
join(lines) ==
    IF lines = <<>> THEN ""
    ELSE IF Len(lines) = 1 THEN lines[1]
    ELSE lines[1] \o "\n" \o join(Tail(lines))

\* _parse_markdown: the first line that is not blank gives the title, what
\* follows it the body
parse_markdown(text, fallback_title) ==
    LET lines == splitlines(text)
        found == {i \in 1..Len(lines) : strip(lines[i], Whitespace) # ""}
    IN  IF found = {}
        THEN Skill(fallback_title, strip(join(lines), Whitespace))
        ELSE LET idx == CHOOSE i \in found : \A j \in found : i <= j
                 title == strip(lstrip(strip(lines[idx], Whitespace), {"#", " "}),
                                Whitespace)
             IN  Skill(IF title = "" THEN fallback_title ELSE title,
                       strip(join(SubSeq(lines, idx + 1, Len(lines))), Whitespace))

\* _compose_file
compose_file(title, body) ==
    IF body # ""
    THEN "# " \o title \o "\n\n" \o rstrip(body, Whitespace) \o "\n"
    ELSE "# " \o title \o "\n"

\* the characters \w matches, and "-"
SlugChars == {"a", "b", "x", "y", "1", "2", "3", "_", "-"}

\* runs of "-" made one
RECURSIVE collapse(_)
collapse(s) ==
    IF Len(s) < 2 THEN s
    ELSE IF Char(s, 1) = "-" /\ Char(s, 2) = "-" THEN collapse(SubSeq(s, 2, Len(s)))
    ELSE Char(s, 1) \o collapse(SubSeq(s, 2, Len(s)))

\* the text in lower case with "-" for every other character
RECURSIVE dashed(_)
dashed(s) ==
    IF s = "" THEN ""
    ELSE (IF lower(Char(s, 1)) \in SlugChars THEN lower(Char(s, 1)) ELSE "-")
             \o dashed(SubSeq(s, 2, Len(s)))

\* _slugify
slugify(text) ==
    LET slug == strip(collapse(dashed(strip(text, Whitespace))), {"-", "_"})
    IN  IF slug = "" THEN "skill" ELSE slug

\* _unique_path: the stem of the first path that does not exist
unique_path_unchecked(files, slug) == IF slug = "" THEN "skill" ELSE slug
unique_path(files, slug) ==
    LET base == IF slug = "" THEN "skill" ELSE slug
        free == {n \in 1..(Cardinality(DOMAIN files) + 1) :
                    (base \o "-" \o Digits(n)) \notin DOMAIN files}
        counter == CHOOSE n \in free : \A m \in free : n <= m
    IN  IF base \notin DOMAIN files THEN base ELSE base \o "-" \o Digits(counter)

\* a function with key k set to v, and with key k removed
With(f, k, v) == [x \in DOMAIN f \cup {k} |-> IF x = k THEN v ELSE f[x]]
Without(f, k) == [x \in DOMAIN f \ {k} |-> f[x]]

\* _load_skill for every *.md file of the directory
load(files) == [id \in DOMAIN files |-> parse_markdown(files[id], id)]

\* SkillRepository(skills_dir) on a directory with these files
NewRepository(files) == Repository(files, load(files))

\* what a call returns or raises, after the calls before it
Returns(repo, call, id, title, body) ==
    Outcome(call, repo.out.call.op, "ok", id, title, body)
Raises(repo, call, exception) ==
    Outcome(call, repo.out.call.op, exception, "", "", "")

\* refresh()
refresh_new_only(repo) ==
    [repo EXCEPT !.skills = [id \in DOMAIN repo.files \ DOMAIN @ |->
                                 parse_markdown(repo.files[id], id)],
                 !.out = Returns(repo, Call("refresh", "", "", ""), "", "", "")]
refresh(repo) ==
    [repo EXCEPT !.skills = load(repo.files),
                 !.out = Returns(repo, Call("refresh", "", "", ""), "", "", "")]

\* get(skill_id)
get(repo, skill_id) ==
    IF skill_id \notin DOMAIN repo.skills
    THEN [repo EXCEPT !.out = Raises(repo, Call("get", "", "", skill_id), "KeyError")]
    ELSE [repo EXCEPT !.out = Returns(repo, Call("get", "", "", skill_id), skill_id,
                                      repo.skills[skill_id].title,
                                      repo.skills[skill_id].body)]

\* upsert(title=..., body=..., skill_id=...), "" standing for no skill_id
upsert_unstripped(repo, given_title, given_body, given_id) ==
    LET skill_id == IF given_id # "" THEN given_id
                    ELSE unique_path(repo.files, slugify(given_title))
        call == Call("upsert", given_title, given_body, given_id)
    IN  IF strip(given_title, Whitespace) = ""
        THEN [repo EXCEPT !.out = Raises(repo, call, "ValueError")]
        ELSE [files |-> With(repo.files, skill_id, compose_file(given_title, given_body)),
              skills |-> With(repo.skills, skill_id, Skill(given_title, given_body)),
              out |-> Returns(repo, call, skill_id, given_title, given_body)]
upsert(repo, given_title, given_body, given_id) ==
    LET title == strip(given_title, Whitespace)
        body == strip(given_body, {"\n"})
        skill_id == IF given_id # "" THEN given_id
                    ELSE unique_path(repo.files, slugify(title))
        call == Call("upsert", given_title, given_body, given_id)
    IN  IF title = ""
        THEN [repo EXCEPT !.out = Raises(repo, call, "ValueError")]
        ELSE [files |-> With(repo.files, skill_id, compose_file(title, body)),
              skills |-> With(repo.skills, skill_id, Skill(title, strip(body, Whitespace))),
              out |-> Returns(repo, call, skill_id, title, strip(body, Whitespace))]

\* delete(skill_id)
delete_cache_only(repo, skill_id) ==
    IF skill_id \notin DOMAIN repo.skills
    THEN [repo EXCEPT !.out = Raises(repo, Call("delete", "", "", skill_id), "KeyError")]
    ELSE [repo EXCEPT !.skills = Without(@, skill_id),
                      !.out = Returns(repo, Call("delete", "", "", skill_id), "", "", "")]
delete(repo, skill_id) ==
    IF skill_id \notin DOMAIN repo.skills
    THEN [repo EXCEPT !.out = Raises(repo, Call("delete", "", "", skill_id), "KeyError")]
    ELSE [files |-> Without(repo.files, skill_id),
          skills |-> Without(repo.skills, skill_id),
          out |-> Returns(repo, Call("delete", "", "", skill_id), "", "", "")]

\* a call on the repository touches nothing of the service
StoreFrame ==
    /\ ret' = NoRet
    /\ UNCHANGED <<runs, run, next_id, task, wk, ready, timers, made, fatal, subs,
                   agent, parser, environ>>

\* the calls of the skill routes, each made under the repository's lock
call_refresh == store' = refresh(store) /\ StoreFrame
call_get(skill_id) == store' = get(store, skill_id) /\ StoreFrame
call_upsert(title, body, skill_id) ==
    /\ Cardinality(DOMAIN store.files) < MaxSkills \/ skill_id \in DOMAIN store.files
    /\ store' = upsert(store, title, body, skill_id)
    /\ StoreFrame
call_delete(skill_id) == store' = delete(store, skill_id) /\ StoreFrame

\* ----------------------------------------------------------- subscribers
\* stream_events up to its first yield: KeyError for an unknown run id
stream_events(s, id) ==
    /\ subs[s].pc = "idle"
    /\ IF id \notin runs
       THEN /\ ret' = [op |-> "stream_events", id |-> id, result |-> "KeyError"]
            /\ UNCHANGED subs
       ELSE /\ ret' = [op |-> "stream_events", id |-> id, result |-> "ok"]
            /\ subs' = [subs EXCEPT ![s] = [pc |-> "replay", run |-> id, idx |-> 1,
                                            received |-> <<>>, joined |-> made[id],
                                            late |-> task[id] = "done"]]
    /\ UNCHANGED <<runs, run, next_id, agent, parser, store, task, wk, ready, timers, made, fatal, environ>>

\* `for event in run.history: yield event`: the list iterator keeps an index
\* into the live list
stream_replay(s) ==
    /\ subs[s].pc = "replay"
    /\ LET h == run[subs[s].run].history
       IN  IF subs[s].idx <= Len(h)
           THEN subs' = [subs EXCEPT ![s].received = Append(@, h[subs[s].idx]),
                                     ![s].idx = @ + 1]
           ELSE subs' = [subs EXCEPT ![s].pc = "live"]
    /\ ret' = NoRet
    /\ UNCHANGED <<runs, run, next_id, agent, parser, store, task, wk, ready, timers, made, fatal, environ>>

\* `event = await run.queue.get()`: the sentinel ends the stream, any other
\* event is yielded
stream_live(s) ==
    /\ subs[s].pc = "live"
    /\ LET r == subs[s].run
       IN  /\ run[r].queue # <<>>
           /\ run' = [run EXCEPT ![r].queue = Tail(@)]
           /\ IF Head(run[r].queue).type = "close"
              THEN subs' = [subs EXCEPT ![s].pc = "closed"]
              ELSE subs' = [subs EXCEPT ![s].received = Append(@, Head(run[r].queue))]
    /\ ret' = NoRet
    /\ UNCHANGED <<runs, next_id, agent, parser, store, task, wk, ready, timers, made, fatal, environ>>

\* ----------------------------------------------------------- specifications
Instructions == {"", "open the browser"}

\* the ids a client can name: a run id is known to a client once the reply
\* to its start request went out, and the loop runs the first segment of the
\* task start_run created before it serves a later request
KnownIds == {id \in CallIds : id \notin RunIds \/ task[id] # "scheduled"}

\* one admitted run, every behaviour of the collaborators, no subscriber
Next ==
    \/ \E instruction \in Instructions : start_run(instruction, {1})
    \/ \E id \in KnownIds : cancel_run(id)
    \/ execute_run(1, FullEnv)
    \/ run_callback
    \/ expire(1)
    \/ wk_prepare(1, FullEnv)
    \/ wk_init(1)
    \/ wk_env_reset(1, FullEnv)
    \/ wk_rec_start(1)
    \/ wk_loop(1)
    \/ wk_predict(1, FullEnv)
    \/ wk_skill_log(1)
    \/ wk_action(1)
    \/ wk_env_step(1)
    \/ wk_done_status(1)
    \/ wk_eval(1)
    \/ wk_rec_end(1, FullEnv)
    \/ wk_return(1)
    \/ wk_except(1)
    \/ wk_reraise(1)

Spec == Init /\ [][Next]_vars

\* two runs, admitted one after the other, with a terse model
NextRuns ==
    \/ start_run("open the browser", RunIds)
    \/ \E id \in KnownIds \cap RunIds : cancel_run(id)
    \/ \E r \in RunIds : execute_run(r, TerseEnv)
    \/ run_callback
    \/ \E r \in RunIds : expire(r)
    \/ \E r \in RunIds : wk_prepare(r, TerseEnv)
    \/ \E r \in RunIds : wk_init(r)
    \/ \E r \in RunIds : wk_env_reset(r, TerseEnv)
    \/ \E r \in RunIds : wk_rec_start(r)
    \/ \E r \in RunIds : wk_loop(r)
    \/ \E r \in RunIds : wk_predict(r, TerseEnv)
    \/ \E r \in RunIds : wk_skill_log(r)
    \/ \E r \in RunIds : wk_action(r)
    \/ \E r \in RunIds : wk_env_step(r)
    \/ \E r \in RunIds : wk_done_status(r)
    \/ \E r \in RunIds : wk_eval(r)
    \/ \E r \in RunIds : wk_rec_end(r, TerseEnv)
    \/ \E r \in RunIds : wk_return(r)
    \/ \E r \in RunIds : wk_except(r)
    \/ \E r \in RunIds : wk_reraise(r)

SpecRuns == Init /\ [][NextRuns]_vars

\* one run that fails at env.reset, and two subscribers of its event stream
NextStream ==
    \/ start_run("open the browser", {1})
    \/ \E id \in KnownIds \cap {1} : cancel_run(id)
    \/ execute_run(1, FailingEnv)
    \/ run_callback
    \/ expire(1)
    \/ wk_prepare(1, FailingEnv)
    \/ wk_init(1)
    \/ wk_env_reset(1, FailingEnv)
    \/ wk_except(1)
    \/ wk_reraise(1)
    \/ \E s \in Subscribers, id \in KnownIds \cap {1} : stream_events(s, id)
    \/ \E s \in Subscribers : stream_replay(s)
    \/ \E s \in Subscribers : stream_live(s)

SpecStream == Init /\ [][NextStream]_vars

\* the replies the model gives in the specification of the agent
Answers ==
    { Answer(Text("click the button", <<>>, <<"click">>, FALSE)),
      Answer(Text("the task is finished", <<>>, <<"DONE">>, FALSE)),
      Answer(Text("type the word DONE", <<>>, <<"type DONE">>, FALSE)),
      Answer(Text("no tool call", <<>>, <<>>, FALSE)),
      Answer(Text("a skill would help", <<"foo">>, <<>>, FALSE)),
      Answer(Text("a skill would help", <<"OPEN APP">>, <<"click">>, FALSE)) }

AgentEnv ==
    [profiles |-> {"vlm"}, prepare |-> {"ok"}, reset |-> {"ok"},
     replies |-> {}, saved |-> {TRUE}, provider |-> Answers \cup Failures]

\* skills_repo is None or the repository; the API key of the profile is
\* configured or not
Repos == {"none", "store"}

InitAgent ==
    /\ InitRuns
    /\ \E repo \in Repos, api_key \in BOOLEAN :
         agent = [r \in RunIds |-> NewAgent(repo, api_key)]
    /\ store = NoStore

\* one run with the provider requests of predict spelled out
NextAgent ==
    \/ start_run("open the browser", {1})
    \/ \E id \in KnownIds \cap {1} : cancel_run(id)
    \/ execute_run(1, AgentEnv)
    \/ run_callback
    \/ wk_prepare(1, AgentEnv)
    \/ wk_init(1)
    \/ wk_env_reset(1, AgentEnv)
    \/ wk_rec_start(1)
    \/ wk_loop(1)
    \/ ag_predict_begin(1)
    \/ ag_call_llm(1, AgentEnv)
    \/ ag_skills(1)
    \/ ag_return(1)
    \/ wk_skill_log(1)
    \/ wk_action(1)
    \/ wk_env_step(1)
    \/ wk_done_status(1)
    \/ wk_eval(1)
    \/ wk_rec_end(1, AgentEnv)
    \/ wk_return(1)
    \/ wk_except(1)
    \/ wk_reraise(1)

SpecAgent == InitAgent /\ [][NextAgent]_vars

\* a model that keeps asking for skills or finishes, a provider that never
\* fails, and nobody who cancels
SkillEnv ==
    [profiles |-> {"vlm"}, prepare |-> {"ok"}, reset |-> {"ok"},
     replies |-> {}, saved |-> {TRUE},
     provider |-> { Answer(Text("a skill would help", <<"foo">>, <<>>, FALSE)),
                    Answer(Text("a skill would help", <<"OPEN APP">>, <<"click">>, FALSE)),
                    Answer(Text("the task is finished", <<>>, <<"DONE">>, FALSE)) }]

InitSkills ==
    /\ InitRuns
    /\ \E repo \in Repos : agent = [r \in RunIds |-> NewAgent(repo, TRUE)]
    /\ store = NoStore

NextSkills ==
    \/ start_run("open the browser", {1})
    \/ execute_run(1, SkillEnv)
    \/ run_callback
    \/ wk_prepare(1, SkillEnv)
    \/ wk_init(1)
    \/ wk_env_reset(1, SkillEnv)
    \/ wk_rec_start(1)
    \/ wk_loop(1)
    \/ ag_predict_begin(1)
    \/ ag_call_llm(1, SkillEnv)
    \/ ag_skills(1)
    \/ ag_return(1)
    \/ wk_skill_log(1)
    \/ wk_action(1)
    \/ wk_env_step(1)
    \/ wk_done_status(1)
    \/ wk_eval(1)
    \/ wk_rec_end(1, SkillEnv)
    \/ wk_return(1)

SpecSkills == InitSkills /\ [][NextSkills]_vars

\* the engine on its own: two viewports, a provider that answers with an
\* action, asks for two skills or fails for good
Viewports == {<<1920, 1080>>, <<1280, 720>>}

Observations(a) ==
    { Observation(v[1], v[2], NextImage(a)) : v \in Viewports }

ChatOutcomes ==
    { Answer(Text("click the button", <<>>, <<"click">>, FALSE)),
      Answer(Text("a skill would help", <<"foo", "OPEN APP">>, <<>>, FALSE)),
      Failure("sdk", "openai.APIError") }

InitChat ==
    /\ InitRuns
    /\ \E repo \in Repos : agent = [r \in RunIds |-> NewAgent(repo, TRUE)]
    /\ store = NoStore

NextChat ==
    \/ \E obs \in Observations(agent[1]) : call_predict(Task, obs)
    \/ \E outcome \in ChatOutcomes : call_llm_returns(outcome)
    \/ call_skills
    \/ call_predict_returns
    \/ call_reset

SpecChat == InitChat /\ [][NextChat]_vars

\* the replies and screens parse_response is tried on
PointerActions ==
    {"click", "left_click", "right_click", "middle_click", "double_click",
     "mouse_move", "left_click_drag"}
Coordinates == {List(<<Num(500), Num(333)>>), List(<<Num(666), Num(999)>>)}
Screens ==
    { Sizes("relative", 1440, 900, 1092, 672),
      Sizes("qwen25", 1500, 1000, 1092, 728),
      Sizes("absolute", 2880, 1800, 1440, 900),
      Sizes("absolute", 1440, 900, 0, 0),
      Sizes("relative", 0, 0, 0, 0) }

\* well-formed tool calls of every supported kind
PointerCalls ==
    {[action |-> a] : a \in PointerActions}
        \cup {[action |-> a, coordinate |-> xy] : a \in PointerActions, xy \in Coordinates}
OtherCalls ==
    { [action |-> "type", text |-> Str("hello")],
      [action |-> "key", keys |-> List(<<Str("CTRL"), Str("c")>>)],
      [action |-> "key", keys |-> List(<<Str("enter")>>)],
      [action |-> "key", keys |-> Str("ab")],
      [action |-> "key", keys |-> List(<<Num(5)>>)],
      [action |-> "key"],
      [action |-> "scroll", pixels |-> Num(5)],
      [action |-> "wait"],
      [action |-> "terminate", status |-> "success"],
      [action |-> "Left_Click", coordinate |-> List(<<Num(500), Num(333)>>)],
      [name |-> "computer_use",
       arguments |-> [action |-> "CLICK", coordinate |-> List(<<Num(500), Num(333)>>)]] }
\* tool calls that name no supported action
UnsupportedCalls ==
    { [action |-> "hover", coordinate |-> List(<<Num(500), Num(333)>>)],
      [name |-> "open_url", arguments |-> [url |-> "example.org"]],
      [name |-> "computer_use", arguments |-> [coordinate |-> List(<<Num(500), Num(333)>>)]] }
\* tool calls of a supported kind whose arguments have another shape
MisshapenCalls ==
    { [action |-> "left_click", coordinate |-> List(<<Num(500), Num(333), Num(0)>>)],
      [action |-> "mouse_move", coordinate |-> Num(500)],
      [action |-> "double_click", coordinate |-> List(<<Str("left"), Str("top")>>)],
      [action |-> "left_click_drag", coordinate |-> Null],
      [action |-> "key", keys |-> Num(5)] }

Blocks ==
    {Block(o, 0) : o \in PointerCalls \cup OtherCalls \cup UnsupportedCalls \cup MisshapenCalls}
        \cup {Block([action |-> "wait"], 2), Broken}
\* the blocks that replies of two blocks are made of
PairBlocks ==
    { Block([action |-> "left_click", coordinate |-> List(<<Num(500), Num(333)>>)], 0),
      Block([action |-> "type", text |-> Str("hello")], 0),
      Block([action |-> "terminate", status |-> "success"], 1),
      Block([action |-> "hover", coordinate |-> List(<<Num(500), Num(333)>>)], 0),
      Block([action |-> "mouse_move", coordinate |-> Num(500)], 0),
      Broken }
ActionLines ==
    {NoActionLine, ActionLine("Action:", "Click the button"), ActionLine("action:", "click the button"),
     ActionLine("Action:", ""), ActionLine("ACTION:", "")}
Responses ==
    {Response(h, <<>>) : h \in ActionLines}
        \cup {Response(h, <<b>>) : h \in ActionLines, b \in Blocks}
        \cup {Response(h, <<a, b>>) : h \in {NoActionLine, ActionLine("Action:", "Click the button")},
                                      a \in PairBlocks, b \in PairBlocks}

NextParser ==
    \/ \E response \in Responses, c \in Screens : parse_response_call(response, c)
    \/ parse_response_return

SpecParser == Init /\ [][NextParser]_vars

\* the skills directory as the repository may find it, and what the skill
\* routes are called with
Directories ==
    { Nothing,
      [id \in {"a"} |-> "\n#  b \nx\n\n"] }
SkillTexts == {<<" A ", "\n x\ny\n">>, <<"# a", "">>, <<" ", "x">>}
SkillIds == {"a", "a-1", "x"}

InitStore ==
    /\ InitRuns
    /\ agent = [r \in RunIds |-> NewAgent("none", TRUE)]
    /\ \E files \in Directories : store = NewRepository(files)

NextStore ==
    \/ call_refresh
    \/ \E skill_id \in SkillIds : call_get(skill_id)
    \/ \E text \in SkillTexts, skill_id \in {"", "x"} :
          call_upsert(text[1], text[2], skill_id)
    \/ \E skill_id \in SkillIds : call_delete(skill_id)

SpecStore == InitStore /\ [][NextStore]_vars

\* ------------------------------------------------------------------ claims
ActiveRuns == {r \in runs : run[r].status \in {"pending", "running"}}
Others == <<runs, run, next_id, task, wk, ready, timers, made, fatal, subs, agent, parser, store>>

C1_OneActive == Cardinality(ActiveRuns) <= 1
C1_ConflictStep ==
    (ret'.op = "start_run" /\ ActiveRuns # {})
        => (ret'.result = "conflict" /\ UNCHANGED Others)

\* C1: at most one run of the registry is pending or running, and a start_run
\* issued while one is fails with the conflict error and changes nothing
C1_SingleActiveRun == []C1_OneActive /\ [][C1_ConflictStep]_vars

\* a second start_run was refused while the second run of the registry runs
C1_Witness ==
    /\ ret.op = "start_run" /\ ret.result = "conflict"
    /\ runs = {1, 2} /\ run[1].status = "cancelled" /\ run[2].status = "running"

Executing == {r \in RunIds : wk[r].pc \notin {"idle", "exited"}}

\* C2: at most one worker thread (the run_prompt body) executes at any time
C2_SingleWorker == Cardinality(Executing) <= 1

C3_RefusedStep ==
    \A id \in CallIds :
        (/\ ret'.op = "cancel_run" /\ ret'.id = id
         /\ (id \notin runs \/ run[id].status \in {"completed", "error", "cancelled"}))
            => (ret'.result = "False" /\ UNCHANGED Others)

\* C3: cancel_run on an unknown id or on a run whose status is completed,
\* error or cancelled returns False, enqueues nothing and changes nothing
C3_CancelRefused == [][C3_RefusedStep]_vars

\* a second cancel of the same run was refused
C3_Witness ==
    /\ ret = [op |-> "cancel_run", id |-> 1, result |-> "False"]
    /\ 1 \in runs /\ run[1].status = "cancelled" /\ run[1].cancel_event

C4_CancelStep ==
    \A id \in CallIds :
        (/\ ret'.op = "cancel_run" /\ ret'.id = id
         /\ id \in runs /\ run[id].status \in {"pending", "running"})
            => /\ ret'.result = "True"
               /\ run'[id].cancel_event
               /\ run'[id].status = "cancelled"
               /\ Len(run'[id].queue) = Len(run[id].queue) + 1
               /\ SubSeq(run'[id].queue, 1, Len(run[id].queue)) = run[id].queue
               /\ LET e == run'[id].queue[Len(run'[id].queue)]
                  IN  e.type = "status" /\ e.status = "cancelled"

\* C4: cancel_run on a pending or running run returns True and in the same
\* step sets the cancellation flag, sets the status to cancelled and puts
\* exactly one status event with status cancelled on the live queue
C4_CancelApplied == [][C4_CancelStep]_vars

\* a run was cancelled while its worker was inside agent.predict
C4_Witness ==
    /\ ret = [op |-> "cancel_run", id |-> 1, result |-> "True"]
    /\ wk[1].pc = "predict" /\ run[1].status = "cancelled"

Received(s) == subs[s].received

\* C5: a subscriber receives no event twice: the replayed history and the
\* live stream it reads do not overlap
C5_NoDuplicates ==
    \A s \in Subscribers :
        \A i, j \in 1..Len(Received(s)) : i < j => Received(s)[i] # Received(s)[j]

\* C6: the runner's events reach a subscriber in the order in which the
\* runner emitted them
C6_EmissionOrder ==
    \A s \in Subscribers :
        \A i, j \in 1..Len(Received(s)) :
            (i < j /\ Received(s)[i].src = "runner" /\ Received(s)[j].src = "runner")
                => Received(s)[i].id <= Received(s)[j].id

\* nothing more will be put on the queue of run r
RunOver(r) ==
    /\ task[r] = "done"
    /\ \A i \in 1..Len(ready) : ready[i].run # r

\* C7: every subscriber of a run receives every event created after it
\* joined: once the run is over and its queue is drained, none is missing
C7_EveryEventToEverySubscriber ==
    \A s \in Subscribers :
        (/\ subs[s].pc \in {"live", "closed"}
         /\ RunOver(subs[s].run)
         /\ run[subs[s].run].queue = <<>>)
            => \A k \in (subs[s].joined + 1)..made[subs[s].run] :
                   \E i \in 1..Len(Received(s)) : Received(s)[i].id = k

\* C8: on a run's queue nothing but the close sentinel follows an error or
\* complete event
C8_NothingAfterTerminalEvent ==
    \A r \in RunIds :
        \A i, j \in 1..Len(run[r].queue) :
            (i < j /\ run[r].queue[i].type \in {"error", "complete"})
                => run[r].queue[j].type = "close"

ErrorEvents(r) == {i \in 1..Len(run[r].queue) : run[r].queue[i].type = "error"}

\* C9: a run that met a run-fatal failure has, once finalized, exactly one
\* error event and the status error
C9_FatalGivesOneErrorAndErrorStatus ==
    \A r \in RunIds :
        (fatal[r] # "none" /\ task[r] = "done")
            => (run[r].status = "error" /\ Cardinality(ErrorEvents(r)) = 1)

\* C10: the status of every run of the registry is one of pending, running,
\* cancelled, error, completed
C10_StatusInDomain == \A r \in runs : run[r].status \in Statuses

Closes(r) == {i \in 1..Len(run[r].queue) : run[r].queue[i].type = "close"}

\* the runner of run r has completed and the loop has taken note of it:
\* _execute_run left through the missing-profile branch, or the worker
\* thread ended and no callback of the run is still scheduled
RunnerCompleted(r) ==
    \/ task[r] \notin {"none", "scheduled"} /\ wk[r].pc = "idle"
    \/ wk[r].pc = "exited" /\ \A i \in 1..Len(ready) : ready[i].run # r

C11_Finalized ==
    \A r \in RunIds :
        /\ RunnerCompleted(r) => task[r] = "done"
        /\ task[r] # "done" => Closes(r) = {}
        /\ task[r] = "done" =>
              /\ run[r].status \in {"completed", "error", "cancelled"}
              /\ Closes(r) = {Len(run[r].queue)}

C11_FinalizeStep ==
    \A r \in RunIds :
        (task[r] # "done" /\ task'[r] = "done")
            => run'[r].status = IF run[r].status \in {"error", "cancelled"}
                                THEN run[r].status ELSE "completed"

C12_Registry ==
    \A r \in RunIds :
        /\ (task[r] = "done" /\ r \in timers) => r \in runs
        /\ (task[r] # "none" /\ r \notin runs) => (task[r] = "done" /\ r \notin timers)
        /\ run[r].status \in {"pending", "running"} => (task[r] = "none" \/ r \in runs)

\* what a generator created after the finalization has yielded is the
\* retained history, in order, before anything else
C12_Replayed ==
    \A s \in Subscribers :
        subs[s].late =>
            LET h == run[subs[s].run].history
            IN  /\ subs[s].pc = "replay" => Received(s) = SubSeq(h, 1, subs[s].idx - 1)
                /\ subs[s].pc \in {"live", "closed"} =>
                      /\ Len(Received(s)) >= Len(h)
                      /\ SubSeq(Received(s), 1, Len(h)) = h

C12_RegistryStep ==
    \A r \in RunIds :
        /\ (r \in runs /\ r \notin runs') =>
              (task[r] = "done" /\ r \in timers /\ run[r].status \notin {"pending", "running"})
        /\ (ret'.op = "stream_events" /\ ret'.id = r) =>
              IF r \in runs
              THEN /\ ret'.result = "ok"
                   /\ \E s \in Subscribers :
                        subs[s].pc = "idle" /\ subs'[s].pc = "replay" /\ subs'[s].run = r
              ELSE ret'.result = "KeyError" /\ UNCHANGED Others
        /\ (ret'.op = "cancel_run" /\ ret'.id = r /\ r \notin runs) =>
              (ret'.result = "False" /\ UNCHANGED Others)

\* C12: a run leaves the registry only when the retention timer set by its
\* finalization fires, never while pending or running; until then it is in
\* the registry and stream_events replays its history; afterwards
\* stream_events raises KeyError and cancel_run returns False
C12_RemovedOnlyAfterRetention ==
    []C12_Registry /\ []C12_Replayed /\ [][C12_RegistryStep]_vars

\* one subscriber replayed the history of the finalized run, then the run
\* expired and the next stream_events on its id failed
C12_Witness ==
    /\ task[1] = "done" /\ 1 \notin runs
    /\ ret = [op |-> "stream_events", id |-> 1, result |-> "KeyError"]
    /\ subs["s1"].late /\ subs["s1"].pc = "closed"
    /\ Len(run[1].history) = 3 /\ Len(Received("s1")) >= 3

IsRunnerEvent(e) == e.src = "runner"

\* the events _handle_event has handled for run r, in handling order: with
\* no subscriber taking from the queue these are the queue's runner events
Handled(r) == SelectSeq(run[r].queue, IsRunnerEvent)

Min(a, b) == IF a <= b THEN a ELSE b

\* C13: a run's history holds at most history_limit events and equals the
\* most recent min(n, history_limit) of the n handled events, in handling
\* order
C13_HistoryIsBoundedFifo ==
    \A r \in RunIds :
        LET n == Len(Handled(r))
            k == Min(n, history_limit)
        IN  /\ Len(run[r].history) <= history_limit
            /\ run[r].history = SubSeq(Handled(r), n - k + 1, n)

\* the buffer was full and two events have been evicted from it
C13_Witness ==
    /\ Len(run[1].history) = history_limit
    /\ Len(Handled(1)) >= history_limit + 2
    /\ run[1].history[1] = Handled(1)[Len(Handled(1)) - history_limit + 1]

\* a step after which a provider request is under way that is not the first
\* request of its predict call: a retry, or the request of a skill round
BeginsFurtherRequest(r) ==
    /\ agent[r].pc \in {"call_llm", "skills"}
    /\ agent'[r].pc = "call_llm"
    /\ agent'[r] # agent[r]

\* a step after which env.step executes an action
BeginsAction(r) == wk[r].pc # "env_step" /\ wk'[r].pc = "env_step"

C14_Step ==
    \A r \in RunIds :
        run[r].cancel_event => (~BeginsFurtherRequest(r) /\ ~BeginsAction(r))

\* C14: once the cancellation flag is set the runner begins no provider
\* request beyond the one in flight, also not in a skill round of predict,
\* and no action execution
C14_NoCallNoActionOnceCancelled == [][C14_Step]_vars

\* no command of the compiled code is the terminal command DONE or FAIL
NoTerminalCommand(code) == \A i \in 1..Len(code) : code[i] \notin {"DONE", "FAIL"}

\* predict has returned for the turn that reached the step limit
ReturnedAtLimit(r) ==
    /\ agent[r].pc = "idle"
    /\ agent[r].executed_actions >= max_steps

\* C15: a predict call at which the executed turns have reached max_steps
\* and whose compiled code is neither DONE nor FAIL returns <<"FAIL">>
C15_ForcedFailAtStepLimit ==
    \A r \in RunIds :
        (ReturnedAtLimit(r) /\ NoTerminalCommand(agent[r].response_raw.code))
            => agent[r].result.actions = <<"FAIL">>

\* C16: when predict has replaced the compiled code by the forced FAIL, the
\* description it returns states the step-limit reason
C16_OverrideStatesReason ==
    \A r \in RunIds :
        (/\ ReturnedAtLimit(r)
         /\ agent[r].result.actions = <<"FAIL">>
         /\ agent[r].response_raw.code # <<"FAIL">>)
            => agent[r].result.response = StepLimitReason

C17_Bounded ==
    \A r \in RunIds :
        /\ agent[r].calls <= MAX_SKILL_TURNS
        /\ agent[r].skill_turns <= MAX_SKILL_TURNS
        /\ agent[r].skill_turns = MAX_SKILL_TURNS =>
              /\ agent[r].pc \in {"compile", "idle"}
              /\ fatal[r] = "none"
              /\ agent[r].pc = "idle" =>
                    /\ agent[r].result.response = agent[r].response_raw.say
                    /\ agent[r].result.actions \in {agent[r].response_raw.code, <<"FAIL">>}

C17_Step ==
    \A r \in RunIds :
        (agent[r].skill_turns = MAX_SKILL_TURNS /\ agent[r].pc = "compile"
         /\ agent'[r] # agent[r])
            => (agent'[r].pc = "idle" /\ wk'[r].pc = "skill_log")

\* C17: one predict call makes at most MAX_SKILL_TURNS calls of call_llm,
\* and when the bound is reached the latest reply is compiled and returned
\* like any other, without an exception
C17_SkillLoopBounded == []C17_Bounded /\ [][C17_Step]_vars

\* the model asked for skills three times in one predict call, which
\* returned what the third reply said
C17_Witness ==
    /\ agent[1].calls = MAX_SKILL_TURNS /\ agent[1].skill_turns = MAX_SKILL_TURNS
    /\ agent[1].pc = "idle" /\ wk[1].pc = "skill_log"
    /\ agent[1].result.response = "a skill would help"

\* the reference names no skill id and no skill title, or there is no store
Missing(repo, ref) ==
    \/ repo = "none"
    \/ \A skill \in Skills : skill.id # ref /\ Lower(skill.title) # Lower(ref)

NotAvailable == "is not available. Continue the task without it."

C18_Step ==
    \A r \in RunIds :
        (agent[r].pc = "skills" /\ agent'[r] # agent[r]) =>
            LET refs == agent[r].response_raw.skills
                n == Len(agent[r].messages)
            IN  /\ agent'[r].pc \in {"call_llm", "compile"}
                /\ wk'[r].pc = "predict" /\ fatal'[r] = fatal[r]
                /\ Len(agent'[r].latest_skill_outputs) = Len(refs)
                /\ Len(agent'[r].messages) = n + Len(refs)
                /\ \A i \in 1..Len(refs) :
                      Missing(agent[r].repo, refs[i]) =>
                          /\ agent'[r].latest_skill_outputs[i] =
                                [title |-> refs[i], body |-> NotAvailable,
                                 available |-> FALSE]
                          /\ agent'[r].messages[n + i] = Message("user", NotAvailable)

\* C18: a reference to a skill that does not exist, or any reference without
\* a store, is answered with the not-available notice and available = FALSE
\* in a user message, and predict goes on without raising
C18_MissingSkillNeverFails == [][C18_Step]_vars

\* with a store configured, the unknown skill foo was answered with the
\* notice and the next provider request is under way
C18_Witness ==
    /\ agent[1].repo = "store" /\ agent[1].pc = "call_llm"
    /\ agent[1].latest_skill_outputs =
          <<[title |-> "foo", body |-> NotAvailable, available |-> FALSE]>>
    /\ agent[1].messages[Len(agent[1].messages)] = Message("user", NotAvailable)

FatalFailures == {"missing credentials"}
TransientFailures == {"transport", "missing content"}

C19_Step ==
    \A r \in RunIds :
        (agent'[r].tries = agent[r].tries + 1 /\ agent'[r].failure # "none") =>
            /\ agent'[r].failure \in FatalFailures =>
                  (agent'[r].tries = 1 /\ agent'[r].pc = "raised")
            /\ agent'[r].failure \in TransientFailures =>
                  IF agent'[r].tries < max_tries
                  THEN agent'[r].pc = "call_llm"
                  ELSE agent'[r].pc = "raised"

\* C19: a transient provider failure is retried until max_tries requests
\* have failed and then leaves predict; a fatal failure such as missing
\* credentials leaves predict at once, without a retry
C19_FailuresClassified == [][C19_Step]_vars

\* C20: for every action kind that takes a coordinate (left, right and middle
\* click, double-click, mouse move, drag) and every coordinate pair (x, y),
\* the emitted pixel pair is the same function of (x, y, mode, sizes):
\* (x*W/1000, y*H/1000) in relative mode, (x*W/999, y*H/999) in the discrete
\* mode, (x*W/Wp, y*H/Hp) in absolute mode with known processed size, and
\* (x, y) unchanged otherwise, each truncated to an integer.
Scaled(x, y, c) ==
    IF c.original_width = 0 \/ c.original_height = 0
    THEN <<x, y>>
    ELSE IF c.coordinate_type = "relative"
    THEN <<(x * c.original_width) \div 1000, (y * c.original_height) \div 1000>>
    ELSE IF c.coordinate_type # "absolute"
    THEN <<(x * c.original_width) \div 999, (y * c.original_height) \div 999>>
    ELSE IF c.processed_width # 0 /\ c.processed_height # 0
    THEN <<(x * c.original_width) \div c.processed_width,
           (y * c.original_height) \div c.processed_height>>
    ELSE <<x, y>>

PointerOf(action) == Pointer[IF action = "click" THEN "left_click" ELSE action]

\* the reply is one tool call that names a pointer action and a pair of numbers
PointsAt(response) ==
    /\ Len(response.blocks) = 1
    /\ response.blocks[1] \in {Block(o, 0) : o \in PointerCalls}
    /\ "coordinate" \in DOMAIN response.blocks[1].object

C20_PixelsAreTruncatedQuotients ==
    (parser.pc = "parsed" /\ PointsAt(parser.response)) =>
        LET call == parser.response.blocks[1].object
            to == Scaled(call.coordinate.value[1].value, call.coordinate.value[2].value,
                         parser.sizes)
        IN  parser.pyautogui_code =
                <<Command(PointerOf(call.action), <<Digits(to[1]), Digits(to[2])>>)>>

\* C21: a tool-call block whose action name (lower-cased, alias resolved) is
\* not a supported kind emits no command and does not raise; every block
\* with a supported name emits exactly one command, so the command list is
\* as long as the number of supported blocks, in their order of appearance.
Supported == DOMAIN Pointer \cup {"type", "key", "scroll", "wait", "terminate"}

NameOf(block) ==
    IF block.broken \/ arguments_of(block.object) = Null
    THEN ""
    ELSE action_of(arguments_of(block.object))

SupportedBlocks(response) ==
    SelectSeq(response.blocks, LAMBDA b : NameOf(b) \in Supported)

CallsOf(name) ==
    IF name \in DOMAIN Pointer THEN {Pointer[name]}
    ELSE CASE name = "type" -> {"pyperclip.copy"}
           [] name = "key" -> {"pyautogui.hotkey", "pyautogui.press"}
           [] name = "scroll" -> {"pyautogui.scroll"}
           [] name = "wait" -> {"WAIT"}
           [] name = "terminate" -> {"DONE"}

C21_OneCommandPerSupportedBlock ==
    parser.pc \in {"parsed", "raised"} =>
        /\ parser.pc = "parsed"
        /\ Len(parser.pyautogui_code) = Len(SupportedBlocks(parser.response))
        /\ \A i \in 1..Len(parser.pyautogui_code) :
              parser.pyautogui_code[i].call
                  \in CallsOf(NameOf(SupportedBlocks(parser.response)[i]))

\* C22: parse_response never raises to its caller: for every model text it
\* returns a (summary, commands) pair, skipping any tool-call block it
\* cannot compile, be it malformed JSON or arguments of an unexpected shape
\* (a coordinate that is no pair of numbers, keys that are no list of strings).
C22_NeverRaises == parser.pc # "raised"

\* C23: for every non-empty title T and body B, upsert(T, B) followed by get
\* of the returned id yields the title and the body equal to T and B after
\* trimming, whatever was called before the upsert.
Trimmed(text) == strip(text, Whitespace)

C23_Step ==
    (/\ store.out.call.op = "upsert" /\ store.out.result = "ok"
     /\ store'.out.call.op = "get" /\ store'.out.call.skill_id = store.out.id)
        => /\ store'.out.result = "ok"
           /\ store'.out.title = Trimmed(store.out.call.title)
           /\ store'.out.body = Trimmed(store.out.call.body)

C23_UpsertThenGet == [][C23_Step]_vars

C23_Witness ==
    /\ store.out.call.op = "get" /\ store.out.after = "upsert"
    /\ store.out.result = "ok" /\ store.out.id = "a-1"
    /\ store.out.title = "A" /\ store.out.body = "x\ny"

\* C24: refresh() is idempotent: called twice with no change to the backing
\* storage in between, it yields the same catalog (ids, titles, bodies) as
\* called once.
C24_Step ==
    (store'.out.call.op = "refresh" /\ store.out.call.op = "refresh"
     /\ store'.files = store.files)
        => store'.skills = store.skills

C24_RefreshIdempotent == [][C24_Step]_vars

C24_Witness ==
    /\ store.out.call.op = "refresh" /\ store.out.after = "refresh"
    /\ Cardinality(DOMAIN store.skills) = MaxSkills
    /\ \E id \in DOMAIN store.skills : store.skills[id].title = "a"

\* C25: skill ids are unique within the store after any sequence of upsert,
\* delete and refresh, and an upsert without an explicit id never overwrites
\* an existing skill: it gets a fresh id derived from the slug of its title,
\* with a numeric suffix when that slug is already taken.
Suffixed(slug) == {slug \o "-" \o Digits(n) : n \in 1..(MaxSkills + 1)}

C25_OneFilePerSkill == DOMAIN store.skills \subseteq DOMAIN store.files

C25_Step ==
    (/\ store'.out.call.op = "upsert" /\ store'.out.call.skill_id = ""
     /\ store'.out.result = "ok" /\ store' # store)
        => LET slug == slugify(store'.out.call.title)
               id == store'.out.id
           IN  /\ id \notin DOMAIN store.skills /\ id \notin DOMAIN store.files
               /\ IF slug \in DOMAIN store.files THEN id \in Suffixed(slug) ELSE id = slug
               /\ DOMAIN store'.skills = DOMAIN store.skills \cup {id}
               /\ \A k \in DOMAIN store.skills : store'.skills[k] = store.skills[k]
               /\ \A k \in DOMAIN store.files : store'.files[k] = store.files[k]

C25_FreshIds == []C25_OneFilePerSkill /\ [][C25_Step]_vars

C25_Witness ==
    /\ store.out.call.op = "upsert" /\ store.out.call.skill_id = ""
    /\ store.out.result = "ok" /\ store.out.id = "a-2"
    /\ {"a", "a-1", "a-2"} \subseteq DOMAIN store.skills

\* C26: delete(id) of an existing skill removes the cache entry and the
\* backing file, so that get(id) fails with not-found and the listing omits
\* it, also after a later refresh(); delete of an unknown id fails with
\* not-found and leaves cache and storage unchanged.
Gone(repo, id) == id \notin DOMAIN repo.skills /\ id \notin DOMAIN repo.files

C26_Step ==
    /\ store'.out.call.op = "delete" /\ store' # store
          => LET id == store'.out.call.skill_id
             IN  IF id \in DOMAIN store.skills
                 THEN /\ store'.out.result = "ok"
                      /\ Gone(store', id)
                 ELSE /\ store'.out.result = "KeyError"
                      /\ store'.skills = store.skills
                      /\ store'.files = store.files
    /\ \A id \in DOMAIN store'.skills \cup DOMAIN store'.files :
          Gone(store, id) => store'.out.call.op = "upsert" /\ store'.out.id = id
    /\ store'.out.call.op = "get" /\ store' # store /\ Gone(store, store'.out.call.skill_id)
          => store'.out.result = "KeyError"

C26_DeletedIsGone == [][C26_Step]_vars

C26_Witness ==
    /\ store.out.call.op = "get" /\ store.out.after = "refresh"
    /\ store.out.result = "KeyError" /\ store.out.call.skill_id = "a"
    /\ "a-1" \in DOMAIN store.skills

\* the system messages of a list are at most its first message
SystemFirst(messages) ==
    \A i \in 1..Len(messages) : messages[i].role = "system" => i = 1

\* C27: whatever predict and reset calls were made, the conversation holds
\* at most one system message, which is then its first message, and so does
\* every message list sent to the provider
C27_OneSystemMessageFirst ==
    \A r \in RunIds :
        SystemFirst(agent[r].messages) /\ SystemFirst(agent[r].payload)

\* a request is under way for a conversation that has outgrown the window,
\* in a viewport other than the one of the turns that returned before: the
\* system message was rebuilt in place and heads the trimmed list
C27_Witness ==
    /\ agent[1].pc = "call_llm" /\ agent[1].executed_actions >= 1
    /\ Len(agent[1].messages) > max_messages + 1
    /\ Len(agent[1].payload) = max_messages + 1
    /\ agent[1].payload[1] = agent[1].messages[1]
    /\ agent[1].payload[1].role = "system"
    /\ agent[1].payload[1].width = 1280
    /\ agent[1].result.response = "click the button"

\* a message list without its system message
Rest(messages) ==
    IF messages # <<>> /\ messages[1].role = "system" THEN Tail(messages) ELSE messages

\* the position of the most recent image of a history, 0 when it has none
Latest(history) ==
    LET images == {i \in 1..Len(history) : history[i].image # 0}
    IN  IF images = {} THEN 0 ELSE CHOOSE i \in images : \A j \in images : j <= i

\* the list sent is a window on the end of the history, message by message,
\* with at most one image, the most recent one
Window(history, sent) ==
    LET n == Len(history)
        k == Len(sent)
    IN  /\ k <= max_messages /\ k <= n
        /\ \A j \in 1..k :
              /\ sent[j].role = history[n - k + j].role
              /\ history[n - k + j].content # "" =>
                    sent[j].content = history[n - k + j].content
              /\ sent[j].image # 0 =>
                    /\ n - k + j = Latest(history)
                    /\ sent[j].image = history[n - k + j].image

\* every older image of the window is gone and the marker stands for it
Placeholders(history, sent) ==
    LET n == Len(history)
        k == Len(sent)
    IN  \A j \in 1..k :
            (history[n - k + j].image # 0 /\ n - k + j # Latest(history)) =>
                (sent[j].image = 0 /\ sent[j].content = Omitted)

\* C28: the list sent with a provider request holds at most max_messages
\* messages besides the system message, in the order of the history, and
\* at most one image, the most recent one of the history; every older image
\* is replaced by the placeholder text
C28_WindowWithPlaceholders ==
    \A r \in RunIds :
        agent[r].pc = "call_llm" =>
            /\ Window(Rest(agent[r].messages), Rest(agent[r].payload))
            /\ Placeholders(Rest(agent[r].messages), Rest(agent[r].payload))

\* the engine as __init__ leaves it, with the same repository and key
Fresh(a) == NewAgent(a.repo, a.api_key)

\* the per-task state of the engine
PerTask(a) ==
    [messages |-> a.messages, conversation_started |-> a.conversation_started,
     executed_actions |-> a.executed_actions,
     screen_width |-> a.screen_width, screen_height |-> a.screen_height,
     latest_skill_outputs |-> a.latest_skill_outputs, catalog |-> a.catalog]

\* a step of reset that changes the engine: no other step leaves it idle
\* when no predict call is under way
Resets(r) ==
    /\ agent[r].pc \in {"idle", "raised"}
    /\ agent'[r].pc = "idle"
    /\ agent'[r] # agent[r]

C29_Step ==
    \A r \in RunIds :
        Resets(r) =>
            /\ agent'[r].messages = <<>>
            /\ agent'[r].executed_actions = 0
            /\ agent'[r].screen_width = 0 /\ agent'[r].screen_height = 0
            /\ agent'[r].catalog = NoCatalog
            /\ agent'[r].latest_skill_outputs = <<>>
            /\ \A v \in Viewports :
                  LET obs == Observation(v[1], v[2], 1)
                      next == predict_begin(agent'[r], Task, obs)
                      first == predict_begin(Fresh(agent[r]), Task, obs)
                  IN  /\ PerTask(next) = PerTask(first)
                      /\ next.payload = first.payload
                      /\ next.payload =
                            <<SystemMessage(v[1], v[2],
                                  IF agent[r].repo = "none" THEN <<>> ELSE list_titles),
                              build_user_message(Task, 1)>>

\* C29: reset leaves the history empty, the step counter at 0, the viewport
\* and the skill catalog unset and no skill outputs, whatever came before,
\* and the predict call after it does what the first call on a new engine
\* does: it builds the system message and sends the instruction with the
\* screenshot
C29_ResetIsFresh == [][C29_Step]_vars

\* a turn returned, the engine was reset, and the request of the next
\* predict call is under way for a conversation of two messages
C29_Witness ==
    /\ agent[1].pc = "call_llm" /\ agent[1].executed_actions = 0
    /\ agent[1].result.response = "click the button"
    /\ agent[1].repo = "store"
    /\ agent[1].payload =
          <<SystemMessage(1280, 720, list_titles), build_user_message(Task, 1)>>
    /\ agent[1].messages = agent[1].payload

\* the step after the loop of run_single_example
AfterLoop(r) == wk[r].pc = "eval" /\ wk'[r].pc # "eval"

\* the events the worker of run r hands to the loop in a step
Emitted(r) ==
    IF /\ Len(ready') = Len(ready) + 1
       /\ ready'[Len(ready')].kind = "event" /\ ready'[Len(ready')].run = r
    THEN <<ready'[Len(ready')].event>>
    ELSE <<>>

C30_Step ==
    \A r \in RunIds :
        /\ AfterLoop(r) =>
              /\ Len(Emitted(r)) = 1 /\ Emitted(r)[1].type = "complete"
              /\ run[r].cancel_event =>
                    /\ Emitted(r)[1].status = "cancelled"
                    /\ wk'[r].evaluated = wk[r].evaluated /\ ~wk'[r].evaluated
                    /\ wk'[r].result_txt = <<>>
                    /\ wk'[r].scores = <<NoScore>>
        /\ ~AfterLoop(r) =>
              \A i \in 1..Len(Emitted(r)) : Emitted(r)[i].type # "complete"

\* C30: the step after the loop hands over exactly one complete event and
\* no other step of the worker hands over one; when the cancellation flag is
\* set at that step, the event has status cancelled, evaluate() is not
\* called, result.txt is not written and the score recorded is None
C30_OneCompleteEvent == [][C30_Step]_vars

\* a cancelled run left its loop after a turn: the cancelled complete event
\* is on its way to the loop and nothing was evaluated or written
C30_Witness ==
    /\ wk[1].pc = "rec_end" /\ wk[1].step_idx >= 1 /\ run[1].cancel_event
    /\ ready # <<>>
    /\ ready[Len(ready)].event.type = "complete"
    /\ ready[Len(ready)].event.status = "cancelled"
    /\ ~wk[1].evaluated /\ wk[1].result_txt = <<>> /\ wk[1].scores = <<NoScore>>

\* predict has returned no action and the skill events are out: the step
\* that decides on the turn
ZeroActions(r) ==
    /\ wk[r].pc = "skill_log" /\ wk[r].logged = wk[r].skills
    /\ wk[r].actions = <<>>
    /\ wk'[r] # wk[r]

\* what the loop does with a turn without actions
ZeroActionsRule(r) ==
    /\ Emitted(r) = <<>>
    /\ IF wk[r].skills > 0
       THEN /\ wk'[r].traj = Append(wk[r].traj, "skill")
            /\ wk'[r].pc = "loop" /\ wk'[r].step_idx = wk[r].step_idx + 1
            /\ ~wk'[r].done /\ fatal'[r] = fatal[r]
       ELSE /\ wk'[r].traj = wk[r].traj
            /\ IF wk[r].step_idx = 0
               THEN wk'[r].pc = "except" /\ fatal'[r] = "episode"
               ELSE wk'[r].pc = "eval" /\ fatal'[r] = fatal[r]

C31_AnyReply ==
    \A r \in RunIds : ZeroActions(r) => ZeroActionsRule(r)

\* C31: a turn without actions appends one skill record, executes nothing
\* and goes on with the next turn when there are skill outputs; without
\* them it is fatal in the first iteration and ends the loop without an
\* error in a later one
C31_ZeroActions == [][C31_AnyReply]_vars

C31_Step ==
    \A r \in RunIds :
        ZeroActions(r) =>
            IF wk[r].html
            THEN /\ wk'[r].pc = "except" /\ fatal'[r] = "episode"
                 /\ wk'[r].traj = wk[r].traj /\ Emitted(r) = <<>>
            ELSE ZeroActionsRule(r)

\* C31 amended: the rule holds for every reply that does not look like an
\* upstream error page; an error page is fatal in every iteration, with or
\* without actions
C31_ZeroActionsUnlessErrorPage == [][C31_Step]_vars

\* a turn of skill outputs without actions was recorded after the reset
\* record, and the loop is at its next turn
C31_Witness ==
    /\ wk[1].pc = "loop" /\ wk[1].step_idx = 1
    /\ wk[1].traj = <<"reset", "skill">>
    /\ fatal[1] = "none"

\* an executed action of the episode has returned the done flag: env.step
\* returns it for DONE and FAIL
ReturnedDone(r) ==
    \E i \in 1..Len(wk[r].traj) : wk[r].traj[i] \in {"DONE", "FAIL"}

\* a step after which agent.predict is under way
BeginsPredict(r) == wk[r].pc # "predict" /\ wk'[r].pc = "predict"

C32_Step ==
    \A r \in RunIds :
        ReturnedDone(r) => (~BeginsAction(r) /\ ~BeginsPredict(r))

\* C32: after an executed action has returned the done flag, the episode
\* executes no further action, of the same turn or a later one, and calls
\* predict no more
C32_NothingAfterDone == [][C32_Step]_vars

\* DONE was executed as the first of two actions of the first turn; the
\* second was dropped and the loop has gone on to the result
C32_Witness ==
    /\ wk[1].traj = <<"reset", "DONE">> /\ wk[1].done
    /\ wk[1].pc = "rec_end" /\ wk[1].step_idx = 1 /\ wk[1].evaluated

\* ------------------------------------------------------------ termination
\* the steps of the worker thread of run r
Worker(r, env) ==
    \/ wk_prepare(r, env)
    \/ wk_init(r)
    \/ wk_env_reset(r, env)
    \/ wk_rec_start(r)
    \/ wk_loop(r)
    \/ wk_predict(r, env)
    \/ wk_skill_log(r)
    \/ wk_action(r)
    \/ wk_env_step(r)
    \/ wk_done_status(r)
    \/ wk_eval(r)
    \/ wk_rec_end(r, env)
    \/ wk_return(r)
    \/ wk_except(r)
    \/ wk_reraise(r)

\* the event loop runs every task and every callback that is ready, and the
\* executor thread goes on as long as each call it makes returns; a client
\* may or may not call start_run and cancel_run, and the retention timer is
\* left to the clock
Scheduling ==
    /\ WF_vars(execute_run(1, FullEnv))
    /\ WF_vars(run_callback)
    /\ WF_vars(Worker(1, FullEnv))

SpecLive == Spec /\ Scheduling

\* _finalize_run has run on run r
Finalized(r) ==
    /\ run[r].completed_at
    /\ run[r].status \in Terminal
    /\ Closes(r) # {}

Consuming ==
    \A s \in Subscribers : WF_vars(stream_replay(s)) /\ SF_vars(stream_live(s))

SpecStreamLive ==
    /\ SpecStream
    /\ WF_vars(execute_run(1, FailingEnv))
    /\ WF_vars(run_callback)
    /\ WF_vars(Worker(1, FailingEnv))
    /\ Consuming

\* subscriber s is inside stream_events
Subscribed(s) == subs[s].pc \in {"replay", "live"}

\* C34: every stream_events subscription on a run eventually ends once the
\* run is finalized, for any number of subscribers and whenever each joined:
\* no subscriber waits forever for the close sentinel
C34_EverySubscriptionEnds ==
    \A s \in Subscribers :
        (Subscribed(s) /\ run[subs[s].run].completed_at) ~> (subs[s].pc = "closed")

\* cancel_run returned True for run r: nothing else sets the cancel event
Cancelled(r) == run[r].cancel_event

\* C35: if cancel_run returned true for a run, the run's status is cancelled
\* at finalization and in every later state: no runner event handled after
\* the cancel and no finalization step overwrites it
C35_CancelledStays ==
    \A r \in RunIds : Cancelled(r) /\ run[r].completed_at => run[r].status = "cancelled"

\* the events a step puts on the live queue of run r (no step of the
\* specification takes one off)
Queued(r) ==
    {run'[r].queue[i] : i \in (Len(run[r].queue) + 1)..Len(run'[r].queue)}

\* the step appends event e to the history of run r, the oldest entry going
\* when the limit is passed
Recorded(r, e) ==
    LET appended == Append(run[r].history, e)
    IN  run'[r].history = IF Len(appended) > history_limit
                          THEN Tail(appended) ELSE appended

C36_Step ==
    \A r \in RunIds : \A e \in Queued(r) : e.type # "close" => Recorded(r, e)

\* C36: every non-sentinel event placed on a run's live queue is appended to
\* the run's history in the same step, for events from the runner as well as
\* for the manager's own events (cancellation status, missing-profile error)
C36_QueuedIsRecorded == [][C36_Step]_vars

\* the worker of run r is between the two ends of _invoke_agent
InsidePatch(r) == wk[r].pc \notin {"idle", "prepare", "exited"}

\* C37: the environment variables patched for a run are restored: once every
\* worker has returned each patched variable has the value it had before the
\* first run started, and while a worker is executing the variables hold
\* that run's own values, for every interleaving of overlapping workers
C37_EnvironRestored ==
    /\ (\A r \in RunIds : ~InsidePatch(r)) => environ = NoEnviron
    /\ \A r \in RunIds : InsidePatch(r) => environ = build_env_patch(wk[r].profile)

\* the task instruction of the episode: the text of the first user message
\* of the conversation ("" before the first predict call)
Instruction(a) ==
    LET history == Rest(a.messages)
    IN  IF history = <<>> THEN "" ELSE history[1].content

\* C38: every message list sent to the provider during an episode contains
\* the task instruction text: trimming never drops the first user message,
\* however many turns and skill replies have accumulated
C38_InstructionSent ==
    \A r \in RunIds :
        (agent[r].pc = "call_llm" /\ Instruction(agent[r]) # "") =>
            \E j \in 1..Len(agent[r].payload) :
                /\ agent[r].payload[j].role = "user"
                /\ agent[r].payload[j].content = Instruction(agent[r])

\* the last predict call of run r handed back FAIL in place of the action the
\* model asked for (the step-limit override), and env.step executed it
FailedByStepLimit(r) ==
    /\ agent[r].result.actions = <<"FAIL">>
    /\ agent[r].response_raw.code # <<"FAIL">>
    /\ wk[r].traj # <<>> /\ wk[r].traj[Len(wk[r].traj)] = "FAIL"

C39_Step ==
    \A r \in RunIds :
        FailedByStepLimit(r) =>
            \A i \in 1..Len(Emitted(r)) :
                ~(Emitted(r)[i].type = "complete" /\ Emitted(r)[i].status = "success")

\* C39: a run whose episode ended by executing the failure-terminal action
\* FAIL, issued by the step-limit override, never emits a complete event
\* with status success
C39_NoSuccessAfterFail == [][C39_Step]_vars

\* the replies to skill references that the current predict call appended to
\* the conversation: the user messages after the one with its screenshot
SkillReplies(messages) ==
    LET turn == SubSeq(messages, Latest(messages) + 1, Len(messages))
        replies == SelectSeq(turn, LAMBDA m : m.role = "user")
    IN  [i \in 1..Len(replies) |-> replies[i].content]

\* C40: skill outputs belong to exactly one turn: when predict returns,
\* latest_skill_outputs holds one entry for every skill reference resolved
\* during that predict call, across all of its skill-lookup rounds, and no
\* entry from an earlier predict call
C40_SkillOutputsOfTheTurn ==
    \A r \in RunIds :
        agent[r].pc = "idle" =>
            [i \in 1..Len(agent[r].latest_skill_outputs) |->
                agent[r].latest_skill_outputs[i].body] = SkillReplies(agent[r].messages)

====
